---- MODULE Spec2Model ----
(***************************************************************************)
(* The in-memory URL registry and click store of the URL shortener         *)
(* backend (models/urlStorage): the two maps urls and clicks, the          *)
(* shortcode generator, and the six registry operations.  Every operation *)
(* is one atomic step (node's event loop runs each call to completion).   *)
(***************************************************************************)
EXTENDS Integers, Sequences, FiniteSets, TLC

(***************************************************************************)
(* Bounds of the model.                                                    *)
(***************************************************************************)
\* the clock is sampled at the whole minutes 0..MaxMinutes
MaxMinutes == 2
\* Math.random is sampled at the draws that select chars[1..MaxDraw+1]
MaxDraw == 1
\* number of uuidv4() values handed out (records and clicks together)
MaxUuid == 3
\* longest run of recordClick calls the click properties try in each state
MaxCalls == 3
\* number of uuidv4() values the server hands out (records and clicks together)
MaxServed == 2
\* the largest maxRetries a Logger is configured with
MaxRetriesTried == 4
\* entries of the form the user gives a shortcode, and entries given a validity
MaxCustomised == 1
\* calls of the frontend logger in a run, storage failures in a run, and the
\* calls up to which clearLogs is tried on a buffer that is not full
MaxLogCalls == 1003
MaxStorageFailures == 1
MaxShort == 2

(***************************************************************************)
(* Program constants.                                                      *)
(***************************************************************************)
maxAttempts == 100
DefaultLength == 6
FallbackLength == 8
MinShortcodeLength == 3
MaxShortcodeLength == 20
DefaultValidity == 30
SecondsPerMinute == 60
MsPerSecond == 1000

\* the registry: the two maps, the clock, the uuids handed out, the last call
VARIABLES urls, clicks, now, uuid, last
\* the HTTP server process: the response to the last request, the process
VARIABLES res, server
\* a call of generateUniqueShortcode and a call of sendLogToServer, step by step
VARIABLES gen, send

\* a call of Logger.log or of a logging middleware of the logging package;
\* the URL shortener form and the log buffer of the frontend
VARIABLES logged, form, logs

\* the logging package's entry points and the frontend
clientSide == <<logged, form, logs>>

\* what lies outside the server
beyond == <<gen, send, logged, form, logs>>

\* what lies outside the registry
outside == <<res, server, gen, send, logged, form, logs>>

vars == <<urls, clicks, now, uuid, last, res, server, gen, send, logged, form, logs>>

(***************************************************************************)
(* Values.  null/undefined/"" (all falsy in JS) are the empty sequence;    *)
(* strings that the code inspects character by character (shortcodes) are  *)
(* sequences of one-character strings.                                     *)
(***************************************************************************)
NULL == <<>>

Some(x) == <<x>>

\* const chars = 'abc...XYZ0123456789'
chars ==
  << "a","b","c","d","e","f","g","h","i","j","k","l","m",
     "n","o","p","q","r","s","t","u","v","w","x","y","z",
     "A","B","C","D","E","F","G","H","I","J","K","L","M",
     "N","O","P","Q","R","S","T","U","V","W","X","Y","Z",
     "0","1","2","3","4","5","6","7","8","9" >>

\* the character class [a-zA-Z0-9] of the format regex
AlnumClass == { chars[i] : i \in 1..Len(chars) }

(***************************************************************************)
(* Dates.  A Date holds epoch milliseconds, a double that is exact far     *)
(* beyond every value met here; it is kept as whole minutes plus the       *)
(* milliseconds within the minute, so that a year of validity             *)
(* (525600 * 60 * 1000 ms) stays within the checker's integers.           *)
(* toISOString renders a Date as minute, second and millisecond fields    *)
(* and new Date(string) reads the fields back.                            *)
(***************************************************************************)
MsPerMinute == SecondsPerMinute * MsPerSecond

Date(min, ms) == [min |-> min, ms |-> ms]

\* new Date(t.getTime() + d), d = minutes * 60 * 1000 + ms with 0 <= ms
DatePlus(t, minutes, ms) ==
  Date(t.min + minutes + (t.ms + ms) \div MsPerMinute, (t.ms + ms) % MsPerMinute)

\* a > b on two Dates
DateAfter(a, b) == a.min > b.min \/ (a.min = b.min /\ a.ms > b.ms)

toISOString(t) ==
  [ min |-> t.min, sec |-> t.ms \div MsPerSecond, ms |-> t.ms % MsPerSecond ]

DateParse(iso) == Date(iso.min, iso.sec * MsPerSecond + iso.ms)

(***************************************************************************)
(* A JS Map: entries in insertion order, one entry per key.                *)
(***************************************************************************)
MapHas(M, k) == \E i \in 1..Len(M) : M[i].key = k

MapGet(M, k) ==
  IF MapHas(M, k)
  THEN Some(M[CHOOSE i \in 1..Len(M) : M[i].key = k].value)
  ELSE NULL

MapSet(M, k, v) ==
  IF MapHas(M, k)
  THEN [ i \in 1..Len(M) |->
           IF M[i].key = k THEN [key |-> k, value |-> v] ELSE M[i] ]
  ELSE Append(M, [key |-> k, value |-> v])

MapDelete(M, k) ==
  LET keep(e) == e.key # k IN SelectSeq(M, keep)

MapKeys(M) == { M[i].key : i \in 1..Len(M) }


(***************************************************************************)
(* Inputs of the operations.                                               *)
(***************************************************************************)
Instants == { Date(m, 0) : m \in 0..MaxMinutes }

\* a run of `length` copies of one character
Repeat(c, length) == [ i \in 1..length |-> c ]

\* Arguments the calls of the state machine are made with.
Urls == { "https://example.com" }

\* validityMinutes: omitted (NULL), or one minute
ValidityArgs == { NULL, Some(1) }

\* customShortcode: omitted, too short, valid, bad character, too long
CustomArgs ==
  { NULL, <<"a","b">>, <<"a","b","c">>, <<"a","-","c">>,
    Repeat("a", MaxShortcodeLength + 1) }

\* clickData arguments; an absent referrer or location (undefined, null or
\* "", all falsy) is ""
ClickInputs ==
  { [ip |-> "1.2.3.4", userAgent |-> "ua", referrer |-> "", location |-> "X"],
    [ip |-> "5.6.7.8", userAgent |-> "ub", referrer |-> "https://ref", location |-> ""] }

(***************************************************************************)
(* Shortcode generator.                                                    *)
(***************************************************************************)
\* generateShortcode(length): every draw of Math.random picks a character
\* of chars; the sampled runs draw the same index at every position.
generateShortcode(length) == { Repeat(chars[r + 1], length) : r \in 0..MaxDraw }

\* a check that finds no shortcode taken
shortcodeExistsNever(U, shortcode) == FALSE

shortcodeExists(U, shortcode) == MapHas(U, shortcode)

\* generateUniqueShortcode: the set of (shortcode, attempts) pairs the
\* do/while can end with.  Attempt k <= maxAttempts draws a 6-character
\* candidate and returns it when it is not in the registry; the loop goes on
\* to attempt k + 1 only when the candidate drawn exists, which the draws
\* allow exactly when some candidate exists.  Attempt maxAttempts + 1 returns
\* an 8-character code without looking it up.
generateUniqueShortcode(U) ==
  LET drawn    == generateShortcode(DefaultLength)
      collides == { d \in drawn : shortcodeExists(U, d) }
      runs(k)  == k = 1 \/ collides # {}
  IN  { [shortcode |-> c, attempts |-> k] :
          c \in drawn \ collides, k \in { j \in 1..maxAttempts : runs(j) } }
      \cup
      { [shortcode |-> c, attempts |-> maxAttempts + 1] :
          c \in IF runs(maxAttempts + 1) THEN generateShortcode(FallbackLength) ELSE {} }

\* a slip on line 48: shortcode.length <= 3
isValidShortcodeOffByOne(shortcode) ==
  IF shortcode = NULL THEN FALSE
  ELSE IF Len(shortcode) <= MinShortcodeLength \/ Len(shortcode) > MaxShortcodeLength
       THEN FALSE
       ELSE \A i \in 1..Len(shortcode) : shortcode[i] \in AlnumClass

isValidShortcode(shortcode) ==
  IF shortcode = NULL THEN FALSE
  ELSE IF Len(shortcode) < MinShortcodeLength \/ Len(shortcode) > MaxShortcodeLength
       THEN FALSE
       ELSE \A i \in 1..Len(shortcode) : shortcode[i] \in AlnumClass

\* shortcode arguments of the lookups and of recordClick: every key of the
\* two maps, and one valid code, which may be unknown
Shortcodes(U, C) == MapKeys(U) \cup MapKeys(C) \cup { <<"a","b","c">> }

(***************************************************************************)
(* Registry operations.  Each takes the state it reads (U = urls,          *)
(* C = clicks, t = new Date(), n = uuids handed out) and yields the state  *)
(* it leaves and what it returns or throws.                                *)
(***************************************************************************)
ErrInvalidFormat == "Invalid shortcode format. Use alphanumeric characters, 3-20 length."

ErrExists == "Shortcode already exists. Please choose a different one."

\* the TypeError of reading a property of null or undefined
ErrTypeError == "TypeError"

Throw(U, C, n, message) ==
  [urls |-> U, clicks |-> C, uuid |-> n, ok |-> FALSE, error |-> message, ret |-> NULL]

\* a slip on line 70: validityMinutes * 1000, the factor 60 forgotten
ExpiryWithoutSixty(t, validityMinutes) ==
  DatePlus(t, validityMinutes \div SecondsPerMinute,
           (validityMinutes % SecondsPerMinute) * MsPerSecond)

\* new Date(now.getTime() + validityMinutes * 60 * 1000)
ExpiryDate(t, validityMinutes) == DatePlus(t, validityMinutes, 0)

\* a store that forgets line 83, this.clicks.set(shortcode, [])
StoreURLWithoutClicks(U, C, t, n, originalUrl, validityMinutes, shortcode) ==
  LET expiry  == ExpiryDate(t, validityMinutes)
      urlData == [ id |-> n + 1,
                   originalUrl |-> originalUrl,
                   shortcode |-> shortcode,
                   createdAt |-> toISOString(t),
                   expiresAt |-> toISOString(expiry),
                   validityMinutes |-> validityMinutes,
                   isActive |-> TRUE ]
  IN  [ urls |-> MapSet(U, shortcode, urlData),
        clicks |-> C,
        uuid |-> n + 1, ok |-> TRUE, error |-> "", ret |-> Some(urlData) ]

\* lines 69-92 of createShortURL: build the record and store it
StoreURL(U, C, t, n, originalUrl, validityMinutes, shortcode) ==
  LET expiry  == ExpiryDate(t, validityMinutes)
      urlData == [ id |-> n + 1,
                   originalUrl |-> originalUrl,
                   shortcode |-> shortcode,
                   createdAt |-> toISOString(t),
                   expiresAt |-> toISOString(expiry),
                   validityMinutes |-> validityMinutes,
                   isActive |-> TRUE ]
  IN  [ urls |-> MapSet(U, shortcode, urlData),
        clicks |-> MapSet(C, shortcode, <<>>),
        uuid |-> n + 1, ok |-> TRUE, error |-> "", ret |-> Some(urlData) ]

\* a createShortURL that takes the shortcode of an expired record for free
createShortURLReusingExpired(U, C, t, n, originalUrl, validityArg, customShortcode) ==
  LET validityMinutes == IF validityArg = NULL THEN DefaultValidity ELSE validityArg[1]
      held == MapGet(U, customShortcode)
  IN  IF customShortcode # NULL
      THEN IF ~isValidShortcode(customShortcode)
           THEN { Throw(U, C, n, ErrInvalidFormat) }
           ELSE IF held # NULL /\ ~DateAfter(t, DateParse(held[1].expiresAt))
                THEN { Throw(U, C, n, ErrExists) }
                ELSE { StoreURL(U, C, t, n, originalUrl, validityMinutes, customShortcode) }
      ELSE { StoreURL(U, C, t, n, originalUrl, validityMinutes, shortcode) :
               shortcode \in { g.shortcode : g \in generateUniqueShortcode(U) } }

\* the set of outcomes of createShortURL(originalUrl, validityArg, customShortcode)
createShortURL(U, C, t, n, originalUrl, validityArg, customShortcode) ==
  LET validityMinutes == IF validityArg = NULL THEN DefaultValidity ELSE validityArg[1]
  IN  IF customShortcode # NULL
      THEN IF ~isValidShortcode(customShortcode)
           THEN { Throw(U, C, n, ErrInvalidFormat) }
           ELSE IF shortcodeExists(U, customShortcode)
                THEN { Throw(U, C, n, ErrExists) }
                ELSE { StoreURL(U, C, t, n, originalUrl, validityMinutes, customShortcode) }
      ELSE { StoreURL(U, C, t, n, originalUrl, validityMinutes, shortcode) :
               shortcode \in { g.shortcode : g \in generateUniqueShortcode(U) } }

\* a lookup with the expiry check of lines 115-118 left out
getURLDataNoExpiry(U, C, t, shortcode) ==
  [urls |-> U, clicks |-> C, ret |-> MapGet(U, shortcode)]

\* a lookup that also evicts the expired record it finds
getURLDataEvicting(U, C, t, shortcode) ==
  LET urlData == MapGet(U, shortcode)
  IN  IF urlData # NULL /\ DateAfter(t, DateParse(urlData[1].expiresAt))
      THEN [urls |-> MapDelete(U, shortcode), clicks |-> MapDelete(C, shortcode), ret |-> NULL]
      ELSE [urls |-> U, clicks |-> C, ret |-> urlData]

getURLData(U, C, t, shortcode) ==
  LET urlData == MapGet(U, shortcode)
  IN  [ urls |-> U, clicks |-> C, ok |-> TRUE, error |-> "",
        ret |-> IF urlData = NULL THEN NULL
                ELSE IF DateAfter(t, DateParse(urlData[1].expiresAt)) THEN NULL
                ELSE urlData ]

\* a slip on line 136: clicks.unshift(clickRecord)
recordClickUnshift(U, C, t, n, shortcode, clickData) ==
  LET got    == MapGet(C, shortcode)
      list   == IF got = NULL THEN <<>> ELSE got[1]
      clickRecord ==
        [ id |-> n + 1,
          timestamp |-> toISOString(t),
          ip |-> clickData.ip,
          userAgent |-> clickData.userAgent,
          referrer |-> IF clickData.referrer = "" THEN "Direct" ELSE clickData.referrer,
          location |-> IF clickData.location = "" THEN "Unknown" ELSE clickData.location ]
  IN  [ urls |-> U,
        clicks |-> MapSet(C, shortcode, <<clickRecord>> \o list),
        uuid |-> n + 1,
        ret |-> clickRecord ]

\* recordClick with line 126 reading this.clicks.get(shortcode), the
\* default [] forgotten: clicks.push throws when the shortcode has no list
recordClickNoDefault(U, C, t, n, shortcode, clickData) ==
  LET got == MapGet(C, shortcode)
      clickRecord ==
        [ id |-> n + 1,
          timestamp |-> toISOString(t),
          ip |-> clickData.ip,
          userAgent |-> clickData.userAgent,
          referrer |-> IF clickData.referrer = "" THEN "Direct" ELSE clickData.referrer,
          location |-> IF clickData.location = "" THEN "Unknown" ELSE clickData.location ]
  IN  IF got = NULL
      THEN [ urls |-> U, clicks |-> C, uuid |-> n + 1,
             ok |-> FALSE, error |-> ErrTypeError, ret |-> NULL ]
      ELSE [ urls |-> U,
             clicks |-> MapSet(C, shortcode, Append(got[1], clickRecord)),
             uuid |-> n + 1, ok |-> TRUE, error |-> "", ret |-> clickRecord ]

\* recordClick: the try block throws a TypeError at clickData.ip when
\* clickData is null or undefined, after uuidv4() has been called; the catch
\* logs the error and throws it again
recordClick(U, C, t, n, shortcode, clickData) ==
  LET got    == MapGet(C, shortcode)
      list   == IF got = NULL THEN <<>> ELSE got[1]
      clickRecord ==
        [ id |-> n + 1,
          timestamp |-> toISOString(t),
          ip |-> clickData.ip,
          userAgent |-> clickData.userAgent,
          referrer |-> IF clickData.referrer = "" THEN "Direct" ELSE clickData.referrer,
          location |-> IF clickData.location = "" THEN "Unknown" ELSE clickData.location ]
  IN  IF clickData = NULL
      THEN [ urls |-> U, clicks |-> C, uuid |-> n + 1,
             ok |-> FALSE, error |-> ErrTypeError, ret |-> NULL ]
      ELSE [ urls |-> U,
             clicks |-> MapSet(C, shortcode, Append(list, clickRecord)),
             uuid |-> n + 1, ok |-> TRUE, error |-> "",
             ret |-> clickRecord ]

\* the view of a click that statistics expose
\* a view of a click that hands the stored click record through
ClickViewWithIp(click) == click

ClickView(click) ==
  [ timestamp |-> click.timestamp, referrer |-> click.referrer,
    location |-> click.location, userAgent |-> click.userAgent ]

getStatistics(U, C, shortcode) ==
  LET urlData == MapGet(U, shortcode)
      got     == MapGet(C, shortcode)
      list    == IF got = NULL THEN <<>> ELSE got[1]
  IN  [ urls |-> U, clicks |-> C, ok |-> TRUE, error |-> "",
        ret |-> IF urlData = NULL THEN NULL
                ELSE Some([ shortcode |-> shortcode,
                            originalUrl |-> urlData[1].originalUrl,
                            createdAt |-> urlData[1].createdAt,
                            expiresAt |-> urlData[1].expiresAt,
                            totalClicks |-> Len(list),
                            clicks |-> [ i \in 1..Len(list) |-> ClickView(list[i]) ] ]) ]

getAllURLs(U, C) ==
  LET count(shortcode) ==
        LET got == MapGet(C, shortcode) IN IF got = NULL THEN 0 ELSE Len(got[1])
  IN  [ urls |-> U, clicks |-> C, ok |-> TRUE, error |-> "",
        ret |-> [ i \in 1..Len(U) |->
                    [ id |-> U[i].value.id,
                      originalUrl |-> U[i].value.originalUrl,
                      shortcode |-> U[i].value.shortcode,
                      createdAt |-> U[i].value.createdAt,
                      expiresAt |-> U[i].value.expiresAt,
                      validityMinutes |-> U[i].value.validityMinutes,
                      isActive |-> U[i].value.isActive,
                      totalClicks |-> count(U[i].key) ] ] ]

\* the for..of loop of cleanupExpiredURLs over the entries, from entry i on
RECURSIVE cleanupLoop(_, _, _, _, _, _)
cleanupLoop(entries, i, U, C, t, cleanedCount) ==
  IF i > Len(entries)
  THEN [urls |-> U, clicks |-> C, ok |-> TRUE, error |-> "", ret |-> cleanedCount]
  ELSE IF DateAfter(t, DateParse(entries[i].value.expiresAt))
       THEN cleanupLoop(entries, i + 1, MapDelete(U, entries[i].key),
                        MapDelete(C, entries[i].key), t, cleanedCount + 1)
       ELSE cleanupLoop(entries, i + 1, U, C, t, cleanedCount)

\* a slip on line 199: the click list of a deleted record is kept
cleanupKeepingClicks(U, C, t) ==
  [ cleanupLoop(U, 1, U, C, t, 0) EXCEPT !.clicks = C ]

\* a loop that returns after the first record it deletes
cleanupFirstOnly(U, C, t) ==
  LET expired == { i \in 1..Len(U) : DateAfter(t, DateParse(U[i].value.expiresAt)) }
      first   == CHOOSE i \in expired : \A j \in expired : i <= j
  IN  IF expired = {}
      THEN [urls |-> U, clicks |-> C, ret |-> 0]
      ELSE [ urls |-> MapDelete(U, U[first].key),
             clicks |-> MapDelete(C, U[first].key), ret |-> 1 ]

\* a slip on line 197: now >= expiry
cleanupAtExpiry(U, C, t) ==
  LET gone      == { U[i].key : i \in { j \in 1..Len(U) :
                       ~DateAfter(DateParse(U[j].value.expiresAt), t) } }
      kept(e)   == e.key \notin gone
  IN  [ urls |-> SelectSeq(U, kept), clicks |-> SelectSeq(C, kept),
        ok |-> TRUE, error |-> "", ret |-> Cardinality(gone) ]

cleanupExpiredURLs(U, C, t) == cleanupLoop(U, 1, U, C, t, 0)

(***************************************************************************)
(* The state machine: any sequence of registry calls, with the clock       *)
(* advancing between them.  last is the most recent call that writes the   *)
(* registry (createShortURL, recordClick, cleanupExpiredURLs): its name    *)
(* and what it returned or threw.  A lookup returns to its caller what the *)
(* operator gives in the state it is called in.                            *)
(***************************************************************************)
Call(op, ok, error, ret) == [op |-> op, ok |-> ok, error |-> error, ret |-> ret]

\* no request has been answered yet
NoResponse ==
  [ route |-> "", shortcode |-> NULL, call |-> NULL, status |-> 0, message |-> "",
    body |-> NULL ]

\* no call of generateUniqueShortcode is under way
NotGenerating == [pc |-> "idle", attempts |-> 0, shortcode |-> NULL]

\* no call of sendLogToServer is under way
NotSending ==
  [ pc |-> "idle", axios |-> TRUE, maxRetries |-> 0, enableConsoleLog |-> TRUE,
    attempt |-> 0, posts |-> 0, delivered |-> FALSE, lastError |-> NULL,
    slept |-> <<>>, console |-> <<>> ]

\* no call of the logging package has been made
NotLogged ==
  [ pc |-> "idle", args |-> <<>>, enableConsoleLog |-> TRUE, console |-> <<>>,
    sends |-> 0, outcome |-> "", error |-> "", entries |-> <<>> ]

\* useState of URLShortenerForm: one empty entry, nothing submitted
InitialForm ==
  [ urlForms |-> << [url |-> <<>>, validity |-> <<>>, shortcode |-> <<>>] >>,
    loading |-> FALSE, sent |-> <<>>, error |-> "" ]

(***************************************************************************)
(* The logger of the frontend (utils/logger.js).  An entry is named by the *)
(* number of the call that made it; logs is this.logs, stored the array    *)
(* under 'app_logs' in localStorage (<<>> when there is none), written     *)
(* whether the last write to localStorage went through, failures how many  *)
(* did not, level and message those of the newest entry.                   *)
(***************************************************************************)
maxLogs == 1000

recentLogs == 100

\* the frontend logger before its constructor has run
NoLogs ==
  [ logs |-> <<>>, stored |-> <<>>, calls |-> 0, level |-> "", message |-> "",
    written |-> TRUE, failures |-> 0 ]

\* this.logs.slice(0, count)
slice(list, count) == SubSeq(list, 1, IF Len(list) < count THEN Len(list) ELSE count)

\* an addLog that appends with push
addLogPush(L, level, message, storageFails) ==
  LET entry    == L.calls + 1
      pushed   == Append(L.logs, entry)
      kept     == slice(pushed, maxLogs)
  IN  [ logs |-> kept,
        stored |-> IF storageFails THEN L.stored ELSE slice(kept, recentLogs),
        calls |-> entry, level |-> level, message |-> message,
        written |-> ~storageFails,
        failures |-> L.failures + (IF storageFails THEN 1 ELSE 0) ]

\* addLog(formatLogEntry(level, ...)): unshift, cut to maxLogs, and write the
\* first recentLogs entries to localStorage; JSON.stringify or setItem may
\* throw, which the catch swallows
addLog(L, level, message, storageFails) ==
  LET entry     == L.calls + 1
      unshifted == <<entry>> \o L.logs
      kept      == slice(unshifted, maxLogs)
  IN  [ logs |-> kept,
        stored |-> IF storageFails THEN L.stored ELSE slice(kept, recentLogs),
        calls |-> entry, level |-> level, message |-> message,
        written |-> ~storageFails,
        failures |-> L.failures + (IF storageFails THEN 1 ELSE 0) ]

\* clearLogs: empty the buffer, remove the stored copy (removeItem may
\* throw), then log 'Logs cleared'
clearLogs(L, removeFails, storageFails) ==
  LET emptied == [ L EXCEPT !.logs = <<>>,
                            !.stored = IF removeFails THEN L.stored ELSE <<>>,
                            !.failures = L.failures + (IF removeFails THEN 1 ELSE 0) ]
  IN  addLog(emptied, "INFO", "Logs cleared", storageFails)

\* new FrontendLogger(): init() logs 'Frontend Logger initialized'
NewFrontendLogger == addLog(NoLogs, "INFO", "Frontend Logger initialized", FALSE)

\* the process before app.listen: no timer registered
NotStarted == [listening |-> FALSE, timers |-> 0, running |-> TRUE, job |-> "none"]

Init ==
  /\ urls = <<>>
  /\ clicks = <<>>
  /\ now = Date(0, 0)
  /\ uuid = 0
  /\ last = Call("init", TRUE, "", NULL)
  /\ res = NoResponse
  /\ server = NotStarted
  /\ gen = NotGenerating
  /\ send = NotSending
  /\ logged = NotLogged
  /\ form = InitialForm
  /\ logs = NewFrontendLogger

CreateShortURL ==
  \E originalUrl \in Urls, validityArg \in ValidityArgs, customShortcode \in CustomArgs :
    \E o \in createShortURL(urls, clicks, now, uuid, originalUrl, validityArg, customShortcode) :
      /\ o.uuid <= MaxUuid
      /\ urls' = o.urls
      /\ clicks' = o.clicks
      /\ uuid' = o.uuid
      /\ last' = Call("createShortURL", o.ok, o.error, o.ret)
      /\ UNCHANGED <<now, outside>>

GetURLData ==
  \E shortcode \in Shortcodes(urls, clicks) :
    LET o == getURLData(urls, clicks, now, shortcode)
    IN  /\ urls' = o.urls
        /\ clicks' = o.clicks
        /\ UNCHANGED <<now, uuid, last, outside>>

RecordClick ==
  \E shortcode \in Shortcodes(urls, clicks), clickData \in ClickInputs :
    LET o == recordClick(urls, clicks, now, uuid, shortcode, clickData)
    IN  /\ o.uuid <= MaxUuid
        /\ urls' = o.urls
        /\ clicks' = o.clicks
        /\ uuid' = o.uuid
        /\ last' = Call("recordClick", TRUE, "", Some(o.ret))
        /\ UNCHANGED <<now, outside>>

GetStatistics ==
  \E shortcode \in Shortcodes(urls, clicks) :
    LET o == getStatistics(urls, clicks, shortcode)
    IN  /\ urls' = o.urls
        /\ clicks' = o.clicks
        /\ UNCHANGED <<now, uuid, last, outside>>

GetAllURLs ==
  LET o == getAllURLs(urls, clicks)
  IN  /\ urls' = o.urls
      /\ clicks' = o.clicks
      /\ UNCHANGED <<now, uuid, last, outside>>

CleanupExpiredURLs ==
  LET o == cleanupExpiredURLs(urls, clicks, now)
  IN  /\ urls' = o.urls
      /\ clicks' = o.clicks
      /\ last' = Call("cleanupExpiredURLs", TRUE, "", Some(o.ret))
      /\ UNCHANGED <<now, uuid, outside>>

\* time passes between two calls
Tick ==
  \E t \in Instants :
    /\ DateAfter(t, now)
    /\ now' = t
    /\ UNCHANGED <<urls, clicks, uuid, last, outside>>

Next ==
  \/ CreateShortURL
  \/ GetURLData
  \/ RecordClick
  \/ GetStatistics
  \/ GetAllURLs
  \/ CleanupExpiredURLs
  \/ Tick

Spec == Init /\ [][Next]_vars

(***************************************************************************)
(* The HTTP layer (routes/urlRoutes, utils/helpers) and the process        *)
(* (app.js).  A text of a request (a url, a shortcode) is a sequence of    *)
(* pieces, a piece of white space being " "; an absent or empty text is    *)
(* NULL.  A JSON number is a record that tells integers from fractions.    *)
(* The handlers contain no await: each runs to completion as one step.     *)
(* The file logger the handlers write to is outside the registry and its   *)
(* writes are taken to succeed, except in the cleanup job, whose contract  *)
(* is about failures and whose only source of failure is a log write.      *)
(***************************************************************************)
MaxValidity == 525600

HttpCreated == 201

HttpFound == 302

HttpOk == 200

HttpBadRequest == 400

HttpNotFound == 404

HttpConflict == 409

HttpServerError == 500

Whitespace == { " " }

\* String.prototype.trim
RECURSIVE trimStart(_)
trimStart(text) ==
  IF text # <<>> /\ Head(text) \in Whitespace THEN trimStart(Tail(text)) ELSE text

RECURSIVE trimEnd(_)
trimEnd(text) ==
  IF text # <<>> /\ text[Len(text)] \in Whitespace
  THEN trimEnd(SubSeq(text, 1, Len(text) - 1))
  ELSE text

trim(text) == trimEnd(trimStart(text))

\* sanitizeInput: a string is trimmed; undefined (NULL) is returned as it is
sanitizeInput(input) == IF input = NULL THEN input ELSE trim(input)

\* JSON numbers: 5 is Integer(5), 1.5 is Fraction(1)
Integer(n) == [kind |-> "integer", n |-> n]

Fraction(n) == [kind |-> "fraction", n |-> n]

\* !value for an absent value or a number: undefined, null and 0 are falsy
Falsy(value) == value = NULL \/ (value[1].kind = "integer" /\ value[1].n = 0)

\* isValidValidity(validity), validity absent or a number
isValidValidity(validity) ==
  IF validity = NULL THEN TRUE
  ELSE /\ validity[1].kind = "integer"
       /\ validity[1].n > 0
       /\ validity[1].n <= MaxValidity

\* validator.isURL(url, {protocols: ['http','https'], require_protocol: true,
\* require_valid_protocol: true}) on the sampled texts: the protocol and the
\* host a piece splits into at "://", none when it has no "://"
UrlParts(piece) ==
  CASE piece = "https://example.com" -> Some([protocol |-> "https", host |-> "example.com"])
    [] piece = "http://other.org/x"  -> Some([protocol |-> "http", host |-> "other.org"])
    [] piece = "ftp://example.com"   -> Some([protocol |-> "ftp", host |-> "example.com"])
    [] OTHER -> NULL

\* isValidURL: validator.isURL throws on a value that is not a string, which
\* the catch turns into false; a text with white space in it is no URL
isValidURL(url) ==
  IF url = NULL THEN FALSE
  ELSE /\ Len(url) = 1
       /\ UrlParts(url[1]) # NULL
       /\ UrlParts(url[1])[1].protocol \in { "http", "https" }
       /\ UrlParts(url[1])[1].host # ""

\* an IP address is its sequence of fields; getLocationFromIP with a
\* geoip database that does not know the sampled public address
getLocationFromIP(ip) ==
  IF \/ ip = NULL
     \/ ip = <<"127","0","0","1">>
     \/ ip = <<"::1">>
     \/ (Len(ip) > 1 /\ ip[1] = "192" /\ ip[2] = "168")
     \/ ip[1] = "10"
     \/ ip[1] = "172"
  THEN "Local/Private Network"
  ELSE "Unknown Location"

\* getRealIP: the first of the header and the socket addresses that is set
getRealIP(req) ==
  IF req.xForwardedFor # NULL THEN req.xForwardedFor
  ELSE IF req.remoteAddress # NULL THEN req.remoteAddress
  ELSE <<"127","0","0","1">>

\* the characters of the messages the registry throws
MessageText(message) ==
  CASE message = ErrInvalidFormat ->
    << "I", "n", "v", "a", "l", "i", "d", " ", "s", "h", "o", "r", "t", "c", "o", "d",
         "e", " ", "f", "o", "r", "m", "a", "t", ".", " ", "U", "s", "e", " ", "a", "l",
         "p", "h", "a", "n", "u", "m", "e", "r", "i", "c", " ", "c", "h", "a", "r", "a",
         "c", "t", "e", "r", "s", ",", " ", "3", "-", "2", "0", " ", "l", "e", "n", "g",
         "t", "h", "." >>
    [] message = ErrExists ->
    << "S", "h", "o", "r", "t", "c", "o", "d", "e", " ", "a", "l", "r", "e", "a", "d",
         "y", " ", "e", "x", "i", "s", "t", "s", ".", " ", "P", "l", "e", "a", "s", "e",
         " ", "c", "h", "o", "o", "s", "e", " ", "a", " ", "d", "i", "f", "f", "e", "r",
         "e", "n", "t", " ", "o", "n", "e", "." >>

\* String.prototype.includes, on sequences of characters
includes(text, search) ==
  \E i \in 0..(Len(text) - Len(search)) : SubSeq(text, i + 1, i + Len(search)) = search

MsgValidity == "Validity must be a positive integer representing minutes (max 525600)."

MsgCreateFailed == "Internal server error while creating short URL"

MsgShortcodeRequired == "Shortcode is required"

MsgInvalidShortcode == "Invalid shortcode"

MsgNotFound == "Short URL not found or has expired"

\* a response, with the registry call that stands behind it (none: NULL)
Respond(route, shortcode, call, status, message, body) ==
  [route |-> route, shortcode |-> shortcode, call |-> call, status |-> status,
   message |-> message, body |-> body]

\* what a handler leaves: the registry and its response
Handled(U, C, n, response) == [urls |-> U, clicks |-> C, uuid |-> n, res |-> response]

\* router.post('/shorturls'): the set of outcomes for a request body
postShorturls(U, C, t, n, body) ==
  LET route           == "POST /shorturls"
      cleanUrl        == sanitizeInput(body.url)
      cleanShortcode  == IF body.shortcode # NULL THEN sanitizeInput(body.shortcode) ELSE NULL
      validityMinutes == IF Falsy(body.validity) THEN Some(Integer(DefaultValidity))
                         ELSE body.validity
      answer(o) ==
        LET call == Some(Call("createShortURL", o.ok, o.error, o.ret))
        IN  IF o.ok
            THEN Respond(route, cleanShortcode, call, HttpCreated, "",
                         Some([ shortLink |-> o.ret[1].shortcode,
                                expiry |-> o.ret[1].expiresAt ]))
            ELSE IF includes(MessageText(o.error), <<"s","h","o","r","t","c","o","d","e">>)
                 THEN Respond(route, cleanShortcode, call, HttpConflict, o.error, NULL)
                 ELSE Respond(route, cleanShortcode, call, HttpServerError,
                              MsgCreateFailed, NULL)
  IN  IF ~isValidValidity(validityMinutes)
      THEN { Handled(U, C, n,
                     Respond(route, cleanShortcode, NULL, HttpBadRequest, MsgValidity, NULL)) }
      ELSE { Handled(o.urls, o.clicks, o.uuid, answer(o)) :
               o \in createShortURL(U, C, t, n, cleanUrl, Some(validityMinutes[1].n),
                                    cleanShortcode) }

\* router.get('/shorturls/:shortcode')
getShorturlsShortcode(U, C, n, shortcode) ==
  LET route          == "GET /shorturls/:shortcode"
      cleanShortcode == sanitizeInput(shortcode)
      statistics     == getStatistics(U, C, cleanShortcode).ret
  IN  IF cleanShortcode = NULL
      THEN Handled(U, C, n,
                   Respond(route, cleanShortcode, NULL, HttpBadRequest, MsgShortcodeRequired, NULL))
      ELSE IF statistics = NULL
           THEN Handled(U, C, n,
                        Respond(route, cleanShortcode, NULL, HttpNotFound, MsgNotFound, NULL))
           ELSE Handled(U, C, n,
                        Respond(route, cleanShortcode, NULL, HttpOk, "", statistics))

\* router.get('/all-urls')
getAllUrlsRoute(U, C, n) ==
  Handled(U, C, n,
          Respond("GET /all-urls", NULL, NULL, HttpOk, "All URLs retrieved successfully",
                  Some(getAllURLs(U, C).ret)))

\* a redirect route that records the click before it looks at urlData
getShortcodeRecordingFirst(U, C, t, n, req) ==
  LET route          == "GET /:shortcode"
      cleanShortcode == sanitizeInput(req.shortcode)
      urlData        == getURLData(U, C, t, cleanShortcode).ret
      clientIP       == getRealIP(req)
      clickData      == [ ip |-> clientIP, userAgent |-> req.userAgent,
                          referrer |-> IF req.referrer # "" THEN req.referrer ELSE req.referer,
                          location |-> getLocationFromIP(clientIP) ]
      o              == recordClick(U, C, t, n, cleanShortcode, clickData)
  IN  IF cleanShortcode = NULL
      THEN Handled(U, C, n,
                   Respond(route, cleanShortcode, NULL, HttpBadRequest, MsgInvalidShortcode, NULL))
      ELSE IF urlData = NULL
           THEN Handled(o.urls, o.clicks, o.uuid,
                        Respond(route, cleanShortcode, NULL, HttpNotFound, MsgNotFound, NULL))
           ELSE Handled(o.urls, o.clicks, o.uuid,
                        Respond(route, cleanShortcode,
                                Some(Call("recordClick", TRUE, "", Some(o.ret))),
                                HttpFound, "",
                                Some([location |-> urlData[1].originalUrl])))

\* router.get('/:shortcode'): look the record up, record the click, redirect
getShortcode(U, C, t, n, req) ==
  LET route          == "GET /:shortcode"
      cleanShortcode == sanitizeInput(req.shortcode)
      urlData        == getURLData(U, C, t, cleanShortcode).ret
      clientIP       == getRealIP(req)
      clickData      == [ ip |-> clientIP, userAgent |-> req.userAgent,
                          referrer |-> IF req.referrer # "" THEN req.referrer ELSE req.referer,
                          location |-> getLocationFromIP(clientIP) ]
      o              == recordClick(U, C, t, n, cleanShortcode, clickData)
  IN  IF cleanShortcode = NULL
      THEN Handled(U, C, n,
                   Respond(route, cleanShortcode, NULL, HttpBadRequest, MsgInvalidShortcode, NULL))
      ELSE IF urlData = NULL
           THEN Handled(U, C, n,
                        Respond(route, cleanShortcode, NULL, HttpNotFound, MsgNotFound, NULL))
           ELSE Handled(o.urls, o.clicks, o.uuid,
                        Respond(route, cleanShortcode,
                                Some(Call("recordClick", TRUE, "", Some(o.ret))),
                                HttpFound, "",
                                Some([location |-> urlData[1].originalUrl])))


(***************************************************************************)
(* The cleanup job (startCleanupJob) and the file logger it reports to.    *)
(* logger.info and logger.error append to app.log and to the file of       *)
(* their level with fs.appendFileSync, which throws when the file cannot   *)
(* be written.                                                             *)
(***************************************************************************)
LogFiles == { "app.log", "info.log", "error.log" }

\* the files logger.<level> appends to, in this order
LogFilesOf(level) == { "app.log", IF level = "info" THEN "info.log" ELSE "error.log" }

\* logger.<level>(...) throws: one of its files is among the unwritable ones
LogThrows(level, unwritable) == LogFilesOf(level) \cap unwritable # {}

\* a tick that never calls cleanupExpiredURLs
cleanupJobIdle(U, C, t, unwritable) ==
  [urls |-> U, clicks |-> C, ret |-> 0, job |-> "done"]

\* one tick of the setInterval callback with the given files unwritable:
\* job is "done" when the try block ended, "caught" when its failure was
\* caught and logged, "uncaught" when the catch block itself threw
cleanupJob(U, C, t, unwritable) ==
  LET o        == cleanupExpiredURLs(U, C, t)
      tryFails == o.ret > 0 /\ LogThrows("info", unwritable)
  IN  [ urls |-> o.urls, clicks |-> o.clicks, ret |-> o.ret,
        job |-> IF ~tryFails THEN "done"
                ELSE IF ~LogThrows("error", unwritable) THEN "caught"
                ELSE "uncaught" ]

(***************************************************************************)
(* The server: app.listen starts the cleanup job; then requests, ticks of  *)
(* the job and the clock interleave, each handler being one step.  An      *)
(* exception that no handler catches ends the process.                     *)
(***************************************************************************)
\* url of a body: a URL, the same with white space around it, absent
BodyUrls == { <<"https://example.com">>, <<" ", "https://example.com", " ">>, NULL }

\* validity of a body: absent, 0, 1, one more than a year, 1.5
BodyValidities ==
  { NULL, Some(Integer(0)), Some(Integer(1)), Some(Integer(MaxValidity + 1)),
    Some(Fraction(1)) }

\* shortcode of a body: absent, valid, valid once trimmed, too short, blank
BodyShortcodes ==
  { NULL, <<"a","b","c">>, <<" ","a","b","c">>, <<"a","b">>, <<" ">> }

\* the plain request body, and the bodies that differ from it in one field
PlainBody == [url |-> <<"https://example.com">>, validity |-> NULL, shortcode |-> NULL]

Bodies ==
  { [PlainBody EXCEPT !.url = u] : u \in BodyUrls }
    \cup { [PlainBody EXCEPT !.validity = v] : v \in BodyValidities }
    \cup { [PlainBody EXCEPT !.shortcode = c] : c \in BodyShortcodes }

\* :shortcode of a path: the shortcodes of the lookups, and a blank
ShortcodeParams(U, C) == Shortcodes(U, C) \cup { <<" ">> }

\* the headers and addresses of a redirect request
Visitors ==
  { [ xForwardedFor |-> NULL, remoteAddress |-> <<"127","0","0","1">>,
      userAgent |-> "ua", referrer |-> "", referer |-> "" ],
    [ xForwardedFor |-> <<"203","0","113","9">>, remoteAddress |-> <<"10","0","0","1">>,
      userAgent |-> "", referrer |-> "", referer |-> "https://ref" ] }

Serving == server.running /\ server.listening

\* the registry and the response a handler leaves
Leave(o) ==
  /\ urls' = o.urls
  /\ clicks' = o.clicks
  /\ uuid' = o.uuid
  /\ res' = o.res

\* app.listen(PORT, callback): the callback starts the cleanup job
Listen ==
  /\ server.running /\ ~server.listening
  /\ server' = [server EXCEPT !.listening = TRUE, !.timers = @ + 1]
  /\ UNCHANGED <<urls, clicks, now, uuid, last, res, beyond>>

\* a POST /shorturls request with one of the bodies
Post(bodies) ==
  /\ Serving
  /\ \E body \in bodies :
       \E o \in postShorturls(urls, clicks, now, uuid, body) :
         /\ o.uuid <= MaxServed
         /\ Leave(o)
  /\ UNCHANGED <<now, last, server, beyond>>

PostShorturls == Post(Bodies)

GetShorturlsShortcode ==
  /\ Serving
  /\ \E shortcode \in ShortcodeParams(urls, clicks) :
       Leave(getShorturlsShortcode(urls, clicks, uuid, shortcode))
  /\ UNCHANGED <<now, last, server, beyond>>

GetAllUrls ==
  /\ Serving
  /\ Leave(getAllUrlsRoute(urls, clicks, uuid))
  /\ UNCHANGED <<now, last, server, beyond>>

\* a GET /:shortcode request of one of the visitors
Visit(visitors) ==
  /\ Serving
  /\ \E shortcode \in ShortcodeParams(urls, clicks), visitor \in visitors :
       LET req == [ shortcode |-> shortcode,
                    xForwardedFor |-> visitor.xForwardedFor,
                    remoteAddress |-> visitor.remoteAddress,
                    userAgent |-> visitor.userAgent,
                    referrer |-> visitor.referrer, referer |-> visitor.referer ]
           o   == getShortcode(urls, clicks, now, uuid, req)
       IN  /\ o.uuid <= MaxServed
           /\ Leave(o)
  /\ UNCHANGED <<now, last, server, beyond>>

GetShortcode == Visit(Visitors)

\* a tick of the timer that startCleanupJob registered
CleanupJob ==
  /\ server.running /\ server.timers > 0
  /\ \E unwritable \in SUBSET LogFiles :
       LET o == cleanupJob(urls, clicks, now, unwritable)
       IN  /\ urls' = o.urls
           /\ clicks' = o.clicks
           /\ server' = [server EXCEPT !.job = o.job, !.running = o.job # "uncaught"]
  /\ UNCHANGED <<now, uuid, last, res, beyond>>

ServerNext ==
  \/ Listen
  \/ PostShorturls
  \/ GetShorturlsShortcode
  \/ GetAllUrls
  \/ GetShortcode
  \/ CleanupJob
  \/ Tick

ServerSpec == Init /\ [][ServerNext]_vars

\* The server with its scheduling: the listen callback runs, and the timer
\* of the cleanup job fires again and again while the process runs.  The
\* requests are those that store, click and expire records: a plain body,
\* one with a validity of a minute, one with a custom shortcode, and the
\* redirects of one visitor.
LiveBodies ==
  { PlainBody, [PlainBody EXCEPT !.validity = Some(Integer(1))],
    [PlainBody EXCEPT !.shortcode = <<"a","b","c">>, !.validity = Some(Integer(1))] }

LiveVisitors == { v \in Visitors : v.xForwardedFor = NULL }

LivePost == Post(LiveBodies)

LiveVisit == Visit(LiveVisitors)

LiveNext ==
  \/ Listen
  \/ LivePost
  \/ LiveVisit
  \/ CleanupJob
  \/ Tick

ServerLive == Init /\ [][LiveNext]_vars /\ WF_vars(Listen) /\ WF_vars(CleanupJob)


(***************************************************************************)
(* One call of generateUniqueShortcode, statement by statement, on a       *)
(* registry that earlier creations filled.  The call is synchronous: once  *)
(* begun it runs to its return with no other code in between.              *)
(***************************************************************************)
\* the codes generateShortcode can draw, of either length
Drawable == generateShortcode(DefaultLength) \cup generateShortcode(FallbackLength)

\* the registry after storing the given shortcodes one after the other
RECURSIVE RegistryOf(_)
RegistryOf(codes) ==
  IF codes = <<>>
  THEN [urls |-> <<>>, clicks |-> <<>>, uuid |-> 0]
  ELSE LET before == RegistryOf(SubSeq(codes, 1, Len(codes) - 1))
       IN  StoreURL(before.urls, before.clicks, Date(0, 0), before.uuid,
                    "https://example.com", DefaultValidity, codes[Len(codes)])

\* the shortcodes stored before the call: up to MaxUuid distinct drawable codes
StoredBefore ==
  { codes \in UNION { [1..k -> Drawable] : k \in 0..MaxUuid } :
      \A i, j \in 1..Len(codes) : codes[i] = codes[j] => i = j }

GenInit ==
  /\ \E codes \in StoredBefore :
       LET r == RegistryOf(codes)
       IN  urls = r.urls /\ clicks = r.clicks /\ uuid = r.uuid
  /\ now = Date(0, 0)
  /\ last = Call("init", TRUE, "", NULL)
  /\ res = NoResponse
  /\ server = NotStarted
  /\ gen = NotGenerating
  /\ send = NotSending
  /\ logged = NotLogged
  /\ form = InitialForm
  /\ logs = NewFrontendLogger

\* lines 28-29: let shortcode; let attempts = 0
GenCall ==
  /\ gen.pc = "idle"
  /\ gen' = [pc |-> "do", attempts |-> 0, shortcode |-> NULL]
  /\ UNCHANGED <<urls, clicks, now, uuid, last, res, server, send, clientSide>>

\* a loop body that forgets attempts++
GenDoNoCount ==
  /\ gen.pc = "do"
  /\ \E c \in generateShortcode(DefaultLength) :
       gen' = [pc |-> "while", attempts |-> gen.attempts, shortcode |-> c]
  /\ UNCHANGED <<urls, clicks, now, uuid, last, res, server, send, clientSide>>

\* lines 32-39, the body of the do/while: draw, count, and past maxAttempts
\* draw a longer code and break to the return
GenDo ==
  /\ gen.pc = "do"
  /\ \E c \in generateShortcode(DefaultLength) :
       LET attempts == gen.attempts + 1
       IN  IF attempts > maxAttempts
           THEN \E longer \in generateShortcode(FallbackLength) :
                  gen' = [pc |-> "returned", attempts |-> attempts, shortcode |-> longer]
           ELSE gen' = [pc |-> "while", attempts |-> attempts, shortcode |-> c]
  /\ UNCHANGED <<urls, clicks, now, uuid, last, res, server, send, clientSide>>

\* line 40: while (this.shortcodeExists(shortcode)); line 42: return shortcode
GenWhile ==
  /\ gen.pc = "while"
  /\ gen' = [gen EXCEPT !.pc = IF shortcodeExists(urls, gen.shortcode)
                               THEN "do" ELSE "returned"]
  /\ UNCHANGED <<urls, clicks, now, uuid, last, res, server, send, clientSide>>

GenNext == GenCall \/ GenDo \/ GenWhile

GenSpec == GenInit /\ [][GenNext]_vars

\* the call runs on until it returns
GenLive == GenInit /\ [][GenNext]_vars /\ WF_vars(GenNext)

(***************************************************************************)
(* One call of Logger.sendLogToServer of the logging package, await by     *)
(* await.  The configuration is DEFAULT_CONFIG overridden by the           *)
(* constructor's argument; axios is null when the module is not installed. *)
(* posts counts the calls of axios.post, slept lists the delays slept,     *)
(* console lists the lines written to the console.                         *)
(***************************************************************************)
\* DEFAULT_CONFIG
maxRetries == 3

retryDelay == 1000

\* the maxRetries a Logger is constructed with
RetriesConfigs == 0..MaxRetriesTried

\* the errors axios.post rejects with
PostErrors == { "timeout of 5000ms exceeded", "Request failed with status code 401" }

WarnNoAxios == "warn: Remote logging disabled - axios not available"

WarnAttempt == "warn: Log delivery attempt failed"

ErrorFallback == "error: Failed to deliver log after all retries. Falling back to console"

ErrorLast == "error: Last error"

\* lines 69-77: without axios warn and return; else let lastError = null and
\* enter the loop with attempt = 1
SendCall ==
  /\ send.pc = "idle"
  /\ \E retries \in RetriesConfigs, consoleLog \in BOOLEAN, installed \in BOOLEAN :
       LET config == [NotSending EXCEPT !.axios = installed, !.maxRetries = retries,
                                        !.enableConsoleLog = consoleLog]
       IN  send' = IF ~installed
                   THEN [config EXCEPT !.pc = "resolved",
                                       !.console = IF consoleLog THEN <<WarnNoAxios>> ELSE <<>>]
                   ELSE [config EXCEPT !.pc = "for", !.attempt = 1]
  /\ UNCHANGED <<urls, clicks, now, uuid, last, res, server, gen, clientSide>>

\* line 79: attempt <= this.config.maxRetries
SendFor ==
  /\ send.pc = "for"
  /\ send' = [send EXCEPT !.pc = IF send.attempt <= send.maxRetries THEN "post" ELSE "after"]
  /\ UNCHANGED <<urls, clicks, now, uuid, last, res, server, gen, clientSide>>

\* lines 80-102: await axios.post; on success return; on failure keep the
\* error, warn, and sleep unless this was the last attempt
SendPost ==
  /\ send.pc = "post"
  /\ \/ send' = [send EXCEPT !.pc = "resolved", !.posts = @ + 1, !.delivered = TRUE]
     \/ \E error \in PostErrors :
          send' = [send EXCEPT
                     !.posts = @ + 1,
                     !.lastError = Some(error),
                     !.console = IF send.enableConsoleLog THEN Append(@, WarnAttempt) ELSE @,
                     !.pc = IF send.attempt < send.maxRetries THEN "sleep" ELSE "for",
                     !.attempt = IF send.attempt < send.maxRetries THEN @ ELSE @ + 1]
  /\ UNCHANGED <<urls, clicks, now, uuid, last, res, server, gen, clientSide>>

\* line 100: await this.sleep(retryDelay * attempt), then attempt++
SendSleep ==
  /\ send.pc = "sleep"
  /\ send' = [send EXCEPT !.pc = "for", !.attempt = @ + 1,
                          !.slept = Append(@, retryDelay * send.attempt)]
  /\ UNCHANGED <<urls, clicks, now, uuid, last, res, server, gen, clientSide>>

\* lines 105-112: the fallback; lastError.message throws a TypeError when
\* lastError is still null, which rejects the promise of the async function
SendGiveUp ==
  /\ send.pc = "after"
  /\ send' = IF ~send.enableConsoleLog
             THEN [send EXCEPT !.pc = "resolved"]
             ELSE IF send.lastError = NULL
                  THEN [send EXCEPT !.pc = "rejected", !.console = Append(@, ErrorFallback)]
                  ELSE [send EXCEPT !.pc = "resolved",
                                    !.console = Append(Append(@, ErrorFallback), ErrorLast)]
  /\ UNCHANGED <<urls, clicks, now, uuid, last, res, server, gen, clientSide>>

SendNext == SendCall \/ SendFor \/ SendPost \/ SendSleep \/ SendGiveUp

SendSpec == Init /\ [][SendNext]_vars

(***************************************************************************)
(* Logger.log of the logging package (the exported Log is logger.log).     *)
(* A JavaScript argument is a value with its type; console is the list of  *)
(* console lines written, sends the number of sendLogToServer calls begun, *)
(* outcome how the promise returned to the caller settles.                 *)
(***************************************************************************)
Str(text) == [type |-> "string", text |-> text]

Num(text) == [type |-> "number", text |-> text]

Undefined == [type |-> "undefined", text |-> ""]

\* !value for strings, numbers and undefined
Not(value) ==
  \/ value.type = "undefined"
  \/ value.type = "string" /\ value.text = ""
  \/ value.type = "number" /\ value.text \in {"0", "NaN"}

validStacks == { "backend", "frontend" }

validLevels == { "debug", "info", "warn", "error", "fatal" }

\* validateParams: the message of the Error it throws, "" when it returns
validateParams(stack, level, packageName, message) ==
  IF ~(stack.type = "string" /\ stack.text \in validStacks)
  THEN "Invalid stack"
  ELSE IF ~(level.type = "string" /\ level.text \in validLevels)
  THEN "Invalid level"
  ELSE IF Not(packageName) \/ packageName.type # "string"
  THEN "Package name must be a non-empty string"
  ELSE IF Not(message) \/ message.type # "string"
  THEN "Message must be a non-empty string"
  ELSE ""

\* logToConsole: one line through the console method of the level
logToConsole(enableConsoleLog, level, message) ==
  IF ~enableConsoleLog
  THEN <<>>
  ELSE << [ method |-> IF level.text = "fatal" THEN "error" ELSE level.text,
            tag |-> "log", text |-> message.text ] >>

\* log(stack, level, packageName, message): the try block validates, writes
\* the console line and starts the delivery; the catch reports the Error on
\* the console and the async function returns normally
log(enableConsoleLog, args) ==
  LET invalid == validateParams(args[1], args[2], args[3], args[4])
  IN  IF invalid # ""
      THEN [ pc |-> "returned", args |-> args, enableConsoleLog |-> enableConsoleLog,
             console |-> IF enableConsoleLog
                         THEN << [method |-> "error", tag |-> "Logger error", text |-> invalid] >>
                         ELSE <<>>,
             sends |-> 0, outcome |-> "resolved", error |-> "", entries |-> <<>> ]
      ELSE [ pc |-> "returned", args |-> args, enableConsoleLog |-> enableConsoleLog,
             console |-> logToConsole(enableConsoleLog, args[2], args[4]),
             sends |-> 1, outcome |-> "resolved", error |-> "",
             entries |-> << [level |-> args[2].text, message |-> args[4].text] >> ]

LogStacks == { Str("backend"), Str("frontend"), Str("invalid-stack"), Undefined }

LogLevels == { Str(l) : l \in validLevels } \cup { Str("invalid-level"), Str("INFO"), Undefined }

LogPackages == { Str("test"), Str(""), Num("42"), Undefined }

LogMessages == { Str("This should fail"), Str(""), Num("0"), Undefined }

LogArgs == { <<s, l, p, m>> : s \in LogStacks, l \in LogLevels, p \in LogPackages, m \in LogMessages }

\* a call Log(stack, level, package, message) and the settling of its promise
LogCall ==
  /\ logged.pc = "idle"
  /\ \E enableConsoleLog \in BOOLEAN, args \in LogArgs :
       logged' = log(enableConsoleLog, args)
  /\ UNCHANGED <<urls, clicks, now, uuid, last, res, server, gen, send, form, logs>>

(***************************************************************************)
(* The Express middlewares of the logging package.  A JavaScript object is *)
(* a function from its field names to its values; req.headers has the      *)
(* lower-case names Node gives it.                                         *)
(***************************************************************************)
\* DEFAULT_REQUEST_CONFIG
sensitiveFields == { "password", "token", "authorization", "cookie" }

maxBodySize == 1024

skipPaths == { "/health", "/metrics", "/favicon.ico" }

Redacted == "[REDACTED]"

\* sanitizeData for an object: a copy with the sensitive fields it has replaced
sanitizeData(data, fields) ==
  [ f \in DOMAIN data |-> IF f \in fields THEN Redacted ELSE data[f] ]

\* the values a field is given, and the length of their text
FieldValues == { "v1", "v2", "long" }

ValueLength(value) == IF value = "long" THEN maxBodySize + 1 ELSE Len(value)

\* a lower bound of JSON.stringify(data).length: the characters of the values
RECURSIVE JsonLength(_)
JsonLength(data) ==
  IF DOMAIN data = {}
  THEN 2
  ELSE LET f == CHOOSE g \in DOMAIN data : TRUE
       IN  ValueLength(data[f])
             + JsonLength([ g \in DOMAIN data \ {f} |-> data[g] ])

\* truncateData: the object itself, or the first maxSize characters of its JSON
truncateData(data, maxSize) ==
  IF JsonLength(data) > maxSize
  THEN [kind |-> "truncated", data |-> data]
  ELSE [kind |-> "object", data |-> data]

HeaderNames == { "authorization", "cookie", "user-agent" }

BodyNames == { "url", "password", "token" }

\* secrets take two values, the url a short and a long one
FieldValuesOf(f) ==
  IF f \in sensitiveFields THEN { "v1", "v2" }
  ELSE IF f = "url" THEN { "v1", "long" } ELSE { "v1" }

Objects(names) ==
  UNION { { o \in [S -> FieldValues] : \A f \in S : o[f] \in FieldValuesOf(f) } :
            S \in SUBSET names }

Requests ==
  { [path |-> path, headers |-> headers, body |-> body] :
      path \in { "/shorturls", "/health" },
      headers \in Objects(HeaderNames), body \in Objects(BodyNames) }

\* the entry requestLogger logs when the request comes in (lines 66-92)
requestLogger(logRequestBody, req) ==
  IF req.path \in skipPaths
  THEN <<>>
  ELSE << [ by |-> "requestLogger", level |-> "info", path |-> req.path,
            headers |-> sanitizeData(req.headers, sensitiveFields),
            body |-> IF logRequestBody
                     THEN truncateData(sanitizeData(req.body, sensitiveFields), maxBodySize)
                     ELSE [kind |-> "undefined", data |-> <<>>] ] >>

\* the entry logged when the response finishes (lines 104-134)
responseLogged(skipSuccessfulRequests, req, statusCode) ==
  IF req.path \in skipPaths \/ (skipSuccessfulRequests /\ statusCode < HttpBadRequest)
  THEN <<>>
  ELSE << [ by |-> "requestLogger",
            level |-> IF statusCode >= HttpServerError THEN "error"
                      ELSE IF statusCode >= HttpBadRequest THEN "warn" ELSE "info",
            path |-> req.path,
            headers |-> <<>>,
            body |-> [kind |-> "undefined", data |-> <<>>] ] >>

\* the entry errorLogger logs (lines 148-162)
errorLogger(req) ==
  << [ by |-> "errorLogger", level |-> "error", path |-> req.path,
       headers |-> sanitizeData(req.headers, sensitiveFields),
       body |-> [kind |-> "object", data |-> req.body] ] >>

Emitted(req, entries) ==
  [ NotLogged EXCEPT !.pc = "logged", !.args = <<req>>, !.sends = Len(entries),
                     !.outcome = "resolved", !.entries = entries ]

\* a request passing requestLogger and finishing with a status
RequestLogger ==
  /\ logged.pc = "idle"
  /\ \E req \in Requests, logRequestBody \in BOOLEAN, skipSuccessfulRequests \in BOOLEAN,
        statusCode \in { HttpCreated, HttpBadRequest, HttpServerError } :
       logged' = Emitted(req, requestLogger(logRequestBody, req)
                                \o responseLogged(skipSuccessfulRequests, req, statusCode))
  /\ UNCHANGED <<urls, clicks, now, uuid, last, res, server, gen, send, form, logs>>

\* a request whose handler failed, passing errorLogger
ErrorLogger ==
  /\ logged.pc = "idle"
  /\ \E req \in Requests : logged' = Emitted(req, errorLogger(req))
  /\ UNCHANGED <<urls, clicks, now, uuid, last, res, server, gen, send, form, logs>>

\* the call is over: the logger keeps nothing of it
LogDone ==
  /\ logged.pc # "idle"
  /\ logged' = NotLogged
  /\ UNCHANGED <<urls, clicks, now, uuid, last, res, server, gen, send, form, logs>>

LogNext == LogCall \/ RequestLogger \/ ErrorLogger \/ LogDone

LogSpec == Init /\ [][LogNext]_vars

(***************************************************************************)
(* The URL shortener form of the frontend (URLShortenerForm).  A field is  *)
(* a text as the request bodies have them, '' being <<>>; sent holds the   *)
(* create requests in flight.  While loading, the fields and buttons are   *)
(* disabled; the add button is rendered below maxForms entries, the remove *)
(* buttons above one, and the submit button is enabled when some url is    *)
(* not blank.                                                              *)
(***************************************************************************)
maxForms == 5

EmptyEntry == [url |-> <<>>, validity |-> <<>>, shortcode |-> <<>>]

handleAddFormUnbounded(urlForms) == Append(urlForms, EmptyEntry)

handleAddForm(urlForms) ==
  IF Len(urlForms) < maxForms THEN Append(urlForms, EmptyEntry) ELSE urlForms

\* urlForms.filter((_, i) => i !== index), index counted from 1
handleRemoveForm(urlForms, index) ==
  IF Len(urlForms) > 1
  THEN [ i \in 1..(Len(urlForms) - 1) |-> IF i < index THEN urlForms[i] ELSE urlForms[i + 1] ]
  ELSE urlForms

handleFormChange(urlForms, index, field, value) ==
  [ urlForms EXCEPT ![index][field] = value ]

\* new URL(text) does not throw: the sampled texts with a scheme, white
\* space around them stripped
ParsesAsURL(text) == Len(trim(text)) = 1 /\ UrlParts(trim(text)[1]) # NULL

\* Number(text) of the sampled validity texts, as isNaN and < coerce them
ToNumber(text) ==
  CASE text = <<"60">>      -> Integer(60)
    [] text = <<"0">>       -> Integer(0)
    [] text = <<"1.5">>     -> Fraction(1)
    [] text = <<"525601">>  -> Integer(MaxValidity + 1)
    [] OTHER                -> [kind |-> "NaN", n |-> 0]

\* parseInt(text): the leading digits
parseInt(text) ==
  IF ToNumber(text).kind = "fraction" THEN Integer(ToNumber(text).n) ELSE ToNumber(text)

\* validateForm(form): the fields it reports an error for
validateForm(entry) ==
  { f \in {"url"} : trim(entry.url) = <<>> \/ ~ParsesAsURL(entry.url) }
    \cup { f \in {"validity"} :
             /\ entry.validity # <<>>
             /\ \/ ToNumber(entry.validity).kind = "NaN"
                \/ ToNumber(entry.validity).n < 1
                \/ ToNumber(entry.validity).n > MaxValidity
                \/ (ToNumber(entry.validity).n = MaxValidity
                      /\ ToNumber(entry.validity).kind = "fraction") }
    \cup { f \in {"shortcode"} :
             /\ entry.shortcode # <<>>
             /\ (Len(entry.shortcode) < MinShortcodeLength
                   \/ Len(entry.shortcode) > MaxShortcodeLength) }

\* requestData of handleSubmit for one entry
requestData(entry) ==
  [ url |-> trim(entry.url),
    validity |-> IF entry.validity # <<>> THEN parseInt(entry.validity)
                 ELSE Integer(DefaultValidity),
    shortcode |-> IF entry.shortcode # <<>> /\ trim(entry.shortcode) # <<>>
                  THEN trim(entry.shortcode) ELSE NULL ]

\* handleSubmit up to its await: the error it sets, or the requests it sends
handleSubmit(urlForms) ==
  LET filled(entry) == trim(entry.url) # <<>>
      validForms == SelectSeq(urlForms, filled)
  IN  IF validForms = <<>>
      THEN [error |-> "Please enter at least one URL", sent |-> <<>>]
      ELSE IF \E i \in 1..Len(validForms) : validateForm(validForms[i]) # {}
      THEN [error |-> "Please fix the validation errors in the forms", sent |-> <<>>]
      ELSE [error |-> "", sent |-> [ i \in 1..Len(validForms) |-> requestData(validForms[i]) ]]

\* validateUrlFormData(formData) of utils/validation.js: the fields it
\* reports an error for and the data it normalizes
validateUrlFormData(formData) ==
  LET normalizedData ==
        [ url |-> trim(formData.url),
          validity |-> IF formData.validity # <<>> THEN parseInt(formData.validity)
                       ELSE Integer(DefaultValidity),
          shortcode |-> trim(formData.shortcode) ]
      errors ==
        { f \in {"url"} : normalizedData.url = <<>> \/ ~isValidURL(normalizedData.url) }
          \cup { f \in {"validity"} :
                   /\ normalizedData.validity # Integer(DefaultValidity)
                   /\ \/ normalizedData.validity.kind = "NaN"
                      \/ normalizedData.validity.n < 1
                      \/ normalizedData.validity.n > MaxValidity }
          \cup { f \in {"shortcode"} :
                   /\ normalizedData.shortcode # <<>>
                   /\ \/ Len(normalizedData.shortcode) < MinShortcodeLength
                      \/ Len(normalizedData.shortcode) > MaxShortcodeLength
                      \/ \E i \in 1..Len(normalizedData.shortcode) :
                           normalizedData.shortcode[i] \notin AlnumClass }
  IN  [isValid |-> errors = {}, errors |-> errors, normalizedData |-> normalizedData]

FormUrls == { <<>>, <<"https://example.com">> }

FormValidities == { <<>>, <<"0">> }

FormShortcodes == { <<>>, <<"a","b","c">>, <<"a","b","-","c">> }

FormValues(field) ==
  IF field = "url" THEN FormUrls
  ELSE IF field = "validity" THEN FormValidities ELSE FormShortcodes

\* the entries that have the field filled in
Customised(urlForms, field) == { i \in 1..Len(urlForms) : urlForms[i][field] # <<>> }

AddForm ==
  /\ ~form.loading
  /\ Len(form.urlForms) < maxForms
  /\ form' = [form EXCEPT !.urlForms = handleAddForm(form.urlForms)]
  /\ UNCHANGED <<urls, clicks, now, uuid, last, res, server, gen, send, logged, logs>>

RemoveForm ==
  /\ ~form.loading
  /\ Len(form.urlForms) > 1
  /\ \E index \in 1..Len(form.urlForms) :
       form' = [form EXCEPT !.urlForms = handleRemoveForm(form.urlForms, index)]
  /\ UNCHANGED <<urls, clicks, now, uuid, last, res, server, gen, send, logged, logs>>

ChangeForm ==
  /\ ~form.loading
  /\ \E index \in 1..Len(form.urlForms), field \in {"url", "validity", "shortcode"} :
       \E value \in FormValues(field) :
         LET changed == handleFormChange(form.urlForms, index, field, value)
         IN  /\ Cardinality(Customised(changed, "validity")) <= MaxCustomised
             /\ Cardinality(Customised(changed, "shortcode")) <= MaxCustomised
             /\ form' = [form EXCEPT !.urlForms = changed]
  /\ UNCHANGED <<urls, clicks, now, uuid, last, res, server, gen, send, logged, logs>>

\* the submit handler up to await Promise.all(apiCalls)
Submit ==
  /\ ~form.loading
  /\ \E i \in 1..Len(form.urlForms) : trim(form.urlForms[i].url) # <<>>
  /\ LET o == handleSubmit(form.urlForms)
     IN  form' = [form EXCEPT !.error = o.error, !.sent = o.sent,
                              !.loading = o.error = ""]
  /\ UNCHANGED <<urls, clicks, now, uuid, last, res, server, gen, send, logged, logs>>

\* the responses arrive: all succeeded and the form is reset, or one failed
SubmitDone ==
  /\ form.loading
  /\ \/ form' = [form EXCEPT !.urlForms = <<EmptyEntry>>, !.sent = <<>>, !.loading = FALSE]
     \/ form' = [form EXCEPT !.error = "Failed to shorten URLs", !.sent = <<>>,
                             !.loading = FALSE]
  /\ UNCHANGED <<urls, clicks, now, uuid, last, res, server, gen, send, logged, logs>>

FormNext == AddForm \/ RemoveForm \/ ChangeForm \/ Submit \/ SubmitDone

FormSpec == Init /\ [][FormNext]_vars

(***************************************************************************)
(* Calls of the frontend logger.                                           *)
(***************************************************************************)
\* a call that logs one entry of the level and message, the write to localStorage
\* going through or not
LogEntry(level, message) ==
  /\ logs.calls < MaxLogCalls
  /\ \E storageFails \in BOOLEAN :
       /\ storageFails => logs.failures < MaxStorageFailures
       /\ logs' = addLog(logs, level, message, storageFails)
  /\ UNCHANGED <<urls, clicks, now, uuid, last, res, server, gen, send, logged, form>>

FrontInfo == LogEntry("INFO", "text")

FrontWarn == LogEntry("WARN", "text")

FrontError == LogEntry("ERROR", "text")

FrontDebug == LogEntry("DEBUG", "text")

\* userAction(action, metadata) logs at info
FrontUserAction == LogEntry("INFO", "User Action")

\* apiCall(method, url, status, ...) logs at error from status 400 on
FrontApiCall ==
  \E status \in { HttpOk, HttpBadRequest } :
    LogEntry(IF status >= HttpBadRequest THEN "ERROR" ELSE "INFO", "API Call")

FrontClearLogs ==
  /\ logs.calls < MaxLogCalls
  /\ logs.calls <= MaxShort \/ Len(logs.logs) >= maxLogs
  /\ \E removeFails \in BOOLEAN, storageFails \in BOOLEAN :
       /\ LET failing == (IF removeFails THEN 1 ELSE 0) + (IF storageFails THEN 1 ELSE 0)
          IN  logs.failures + failing <= MaxStorageFailures
       /\ logs' = clearLogs(logs, removeFails, storageFails)
  /\ UNCHANGED <<urls, clicks, now, uuid, last, res, server, gen, send, logged, form>>

FrontNext ==
  \/ FrontInfo
  \/ FrontWarn
  \/ FrontError
  \/ FrontDebug
  \/ FrontUserAction
  \/ FrontApiCall
  \/ FrontClearLogs

FrontSpec == Init /\ [][FrontNext]_vars

(***************************************************************************)
(* Properties.  The lookups and the hypothetical calls below are the       *)
(* operators above applied to the state reached.                           *)
(***************************************************************************)
\* now > expiresAt
Expired(urlData, t) == DateAfter(t, DateParse(urlData.expiresAt))

\* 3-20 alphanumeric characters
WellFormed(code) ==
  /\ Len(code) \in 3..20
  /\ \A i \in 1..Len(code) :
       code[i] \in { "a","b","c","d","e","f","g","h","i","j","k","l","m",
                     "n","o","p","q","r","s","t","u","v","w","x","y","z",
                     "A","B","C","D","E","F","G","H","I","J","K","L","M",
                     "N","O","P","Q","R","S","T","U","V","W","X","Y","Z",
                     "0","1","2","3","4","5","6","7","8","9" }

\* arguments the properties try in every state reached
AnyUrl == { "https://example.com", "http://other.org/x" }

AnyValidity == { 1, 30, 525600 }

AnyCustom == CustomArgs \cup { Repeat("a", FallbackLength), Repeat("Z", MaxShortcodeLength) }

\* the step is a createShortURL call that stored a record
CreateStep == last'.op = "createShortURL" /\ last'.ok /\ uuid' = uuid + 1

\* C1: no two live records share a shortcode: a record createShortURL has
\* handed out stays live until it expires or cleanup deletes it, so
\* createShortURL never hands out a shortcode that a live record holds.
C1_NoSharedShortcode ==
  [][ CreateStep =>
        \A i \in 1..Len(urls) :
          ~Expired(urls[i].value, now) => last'.ret[1].shortcode # urls[i].key ]_vars

\* C2: createShortURL with validityMinutes in [1,525600] followed at once by
\* getURLData of the returned shortcode gives a record with the originalUrl
\* passed in and expiresAt = createdAt + validityMinutes * 60 seconds.
C2_CreateThenResolve ==
  \A originalUrl \in AnyUrl, v \in AnyValidity, customShortcode \in AnyCustom :
    \A o \in createShortURL(urls, clicks, now, uuid, originalUrl, Some(v), customShortcode) :
      o.ok =>
        LET got     == getURLData(o.urls, o.clicks, now, o.ret[1].shortcode).ret
            created == DateParse(got[1].createdAt)
            expires == DateParse(got[1].expiresAt)
            seconds(d) == d.min * 60 + d.ms \div 1000
        IN  /\ got # NULL
            /\ got = o.ret
            /\ got[1].originalUrl = originalUrl
            /\ created = now
            /\ seconds(expires) = seconds(created) + v * 60
            /\ expires.ms % 1000 = created.ms % 1000

\* C2 witness: a record was just created and getURLData returns it
C2_Witness ==
  /\ last.op = "createShortURL" /\ last.ok
  /\ getURLData(urls, clicks, now, last.ret[1].shortcode).ret = last.ret
  /\ last.ret[1].validityMinutes = 1


\* C3: with a custom shortcode, createShortURL throws the format error when
\* the code is not 3-20 alphanumeric characters and the already-exists error
\* when the code is a key of the registry, both leaving urls and clicks as
\* they were; a well-formed unused code is stored under that code, after
\* which the same call throws already-exists.
C3_CustomShortcode ==
  \A originalUrl \in AnyUrl, validityArg \in ValidityArgs,
     customShortcode \in AnyCustom \ {NULL} :
    LET outcomes == createShortURL(urls, clicks, now, uuid, originalUrl,
                                   validityArg, customShortcode)
        rejected(o, message) ==
          /\ ~o.ok /\ o.error = message
          /\ o.urls = urls /\ o.clicks = clicks
    IN  /\ outcomes # {}
        /\ \A o \in outcomes :
             IF ~WellFormed(customShortcode)
             THEN rejected(o, ErrInvalidFormat)
             ELSE IF customShortcode \in MapKeys(urls)
                  THEN rejected(o, ErrExists)
                  ELSE /\ o.ok
                       /\ o.ret[1].shortcode = customShortcode
                       /\ MapGet(o.urls, customShortcode) = o.ret
                       /\ \A again \in createShortURL(o.urls, o.clicks, now, o.uuid,
                                                     originalUrl, validityArg, customShortcode) :
                            /\ ~again.ok /\ again.error = ErrExists
                            /\ again.urls = o.urls /\ again.clicks = o.clicks

\* C3 witness: a custom code is stored and a call has just been rejected
C3_Witness ==
  /\ last.op = "createShortURL" /\ ~last.ok /\ last.error = ErrExists
  /\ MapHas(urls, <<"a","b","c">>)
  /\ \A o \in createShortURL(urls, clicks, now, uuid, "https://example.com", NULL, <<"a","b">>) :
       ~o.ok /\ o.error = ErrInvalidFormat


\* the shortcodes of the entries getAllURLs lists
Listed(U, C) ==
  LET all == getAllURLs(U, C).ret IN { all[i].shortcode : i \in 1..Len(all) }

\* C4: for a record past its expiresAt that no cleanup has removed,
\* getURLData returns null while getStatistics returns its statistics and
\* getAllURLs lists it; once cleanupExpiredURLs has run, all three report it
\* absent.
C4_ExpiryHiding ==
  \A i \in 1..Len(urls) :
    Expired(urls[i].value, now) =>
      LET shortcode == urls[i].key
          stats     == getStatistics(urls, clicks, shortcode).ret
          cleaned   == cleanupExpiredURLs(urls, clicks, now)
      IN  /\ getURLData(urls, clicks, now, shortcode).ret = NULL
          /\ stats # NULL
          /\ stats[1].shortcode = shortcode
          /\ stats[1].originalUrl = urls[i].value.originalUrl
          /\ shortcode \in Listed(urls, clicks)
          /\ getURLData(cleaned.urls, cleaned.clicks, now, shortcode).ret = NULL
          /\ getStatistics(cleaned.urls, cleaned.clicks, shortcode).ret = NULL
          /\ shortcode \notin Listed(cleaned.urls, cleaned.clicks)

\* C4 witness: an expired record with a recorded click is still stored
C4_Witness ==
  \E i \in 1..Len(urls) :
    /\ Expired(urls[i].value, now)
    /\ getStatistics(urls, clicks, urls[i].key).ret[1].totalClicks = 1
    /\ getURLData(urls, clicks, now, urls[i].key).ret = NULL

\* C5: cleanupExpiredURLs deletes exactly the records with now > expiresAt,
\* each with its click list, keeps the others, and returns the number of
\* records it removed; after it no stored record has now > expiresAt.
C5_CleanupRemovesExpired ==
  LET cleaned     == cleanupExpiredURLs(urls, clicks, now)
      expiredKeys == { urls[i].key : i \in { j \in 1..Len(urls) : Expired(urls[j].value, now) } }
      keptUrl(e)   == ~Expired(e.value, now)
      keptClick(e) == e.key \notin expiredKeys
  IN  /\ cleaned.urls = SelectSeq(urls, keptUrl)
      /\ cleaned.clicks = SelectSeq(clicks, keptClick)
      /\ cleaned.ret = Len(urls) - Len(cleaned.urls)
      /\ cleaned.ret = Cardinality(expiredKeys)
      /\ \A i \in 1..Len(cleaned.urls) : ~Expired(cleaned.urls[i].value, now)
      /\ \A k \in expiredKeys : ~MapHas(cleaned.urls, k) /\ ~MapHas(cleaned.clicks, k)

\* C5 witness: a cleanup has just removed one record with its click list
\* and left a live record and its click list behind
C5_Witness ==
  /\ last.op = "cleanupExpiredURLs" /\ last.ret = Some(1)
  /\ Len(urls) = 1 /\ ~Expired(urls[1].value, now)
  /\ MapKeys(clicks) = { urls[1].key }

\* C6: a second cleanupExpiredURLs right after the first, with no record
\* expiring between the two calls, returns 0 and leaves urls and clicks as
\* the first call left them.
C6_CleanupIdempotent ==
  \A t \in Instants :
    LET first  == cleanupExpiredURLs(urls, clicks, now)
        second == cleanupExpiredURLs(first.urls, first.clicks, t)
        noneExpiresBetween ==
          \A i \in 1..Len(urls) : ~Expired(urls[i].value, now) => ~Expired(urls[i].value, t)
    IN  (~DateAfter(now, t) /\ noneExpiresBetween) =>
          /\ second.ret = 0
          /\ second.urls = first.urls
          /\ second.clicks = first.clicks

\* C6 witness: the cleanup that has just run removed two records, and a
\* second one now removes none
C6_Witness ==
  /\ last.op = "cleanupExpiredURLs" /\ last.ret = Some(2)
  /\ cleanupExpiredURLs(urls, clicks, now).ret = 0


\* the registry after recordClick(shortcode, calls[1]), ..., in this order
RECURSIVE AfterClicks(_, _, _, _, _)
AfterClicks(U, C, n, shortcode, calls) ==
  IF calls = <<>>
  THEN [urls |-> U, clicks |-> C, uuid |-> n]
  ELSE LET o == recordClick(U, C, now, n, shortcode, Head(calls))
       IN  AfterClicks(o.urls, o.clicks, o.uuid, shortcode, Tail(calls))

\* what statistics show of a click made now with clickData
ExpectedView(clickData) ==
  [ timestamp |-> toISOString(now),
    referrer  |-> IF clickData.referrer = "" THEN "Direct" ELSE clickData.referrer,
    location  |-> IF clickData.location = "" THEN "Unknown" ELSE clickData.location,
    userAgent |-> clickData.userAgent ]

ClickRuns == UNION { [1..n -> ClickInputs] : n \in 0..MaxCalls }

\* C7: n recordClick calls for a live shortcode add n to the totalClicks of
\* getStatistics and append the n clicks to its clicks array in call order;
\* counted from the creation of the record, totalClicks is n.
C7_ClickAccumulation ==
  /\ \A i \in 1..Len(urls) :
       ~Expired(urls[i].value, now) =>
         LET shortcode == urls[i].key
             before    == getStatistics(urls, clicks, shortcode).ret[1]
         IN  /\ before.totalClicks = Len(before.clicks)
             /\ \A calls \in ClickRuns :
                  LET a == AfterClicks(urls, clicks, uuid, shortcode, calls)
                  IN  getStatistics(a.urls, a.clicks, shortcode).ret[1] =
                        [ before EXCEPT
                            !.totalClicks = before.totalClicks + Len(calls),
                            !.clicks = before.clicks \o
                                         [ j \in 1..Len(calls) |-> ExpectedView(calls[j]) ] ]
  /\ \A customShortcode \in { NULL, <<"a","b","c">> } :
       \A o \in createShortURL(urls, clicks, now, uuid, "https://example.com",
                               NULL, customShortcode) :
         o.ok =>
           LET fresh == getStatistics(o.urls, o.clicks, o.ret[1].shortcode).ret[1]
           IN  fresh.totalClicks = 0 /\ fresh.clicks = <<>>

\* C7 witness: two clicks have been recorded for a live record and
\* statistics list them in the order they were made
C7_Witness ==
  /\ last.op = "recordClick"
  /\ \E i \in 1..Len(urls) :
       LET stats == getStatistics(urls, clicks, urls[i].key).ret[1]
       IN  /\ ~Expired(urls[i].value, now)
           /\ stats.totalClicks = 2
           /\ stats.clicks[1].userAgent = "ub"
           /\ stats.clicks[2].userAgent = "ua"
           /\ last.ret[1].userAgent = "ua"

\* C8: the click list of a shortcode only ever changes by one record being
\* appended at its end, and it is removed only by cleanupExpiredURLs
\* deleting the expired record that owns it.
C8_ClicksAppendOnly ==
  [][ \A i \in 1..Len(clicks) :
        LET k      == clicks[i].key
            before == clicks[i].value
            after  == MapGet(clicks', k)
        IN  IF after = NULL
            THEN /\ last'.op = "cleanupExpiredURLs"
                 /\ MapHas(urls, k)
                 /\ Expired(MapGet(urls, k)[1], now)
            ELSE \/ after[1] = before
                 \/ /\ Len(after[1]) = Len(before) + 1
                    /\ SubSeq(after[1], 1, Len(before)) = before ]_vars

\* C9: a stored record keeps its id, originalUrl, shortcode, createdAt,
\* expiresAt and validityMinutes for as long as it is stored; it leaves the
\* registry only by cleanupExpiredURLs deleting it once expired, and no
\* createShortURL call replaces it.
C9_NoUpdate ==
  [][ \A i \in 1..Len(urls) :
        LET after == MapGet(urls', urls[i].key)
        IN  IF after = NULL
            THEN last'.op = "cleanupExpiredURLs" /\ Expired(urls[i].value, now)
            ELSE after[1] = urls[i].value ]_vars

\* C10: getURLData returns the stored record when there is one and
\* now <= expiresAt, null otherwise, and leaves urls and clicks as they are.
C10_GetURLDataReadOnly ==
  \A shortcode \in Shortcodes(urls, clicks) :
    LET o      == getURLData(urls, clicks, now, shortcode)
        stored == { i \in 1..Len(urls) : urls[i].key = shortcode }
        live   == { i \in stored : ~Expired(urls[i].value, now) }
    IN  /\ o.urls = urls
        /\ o.clicks = clicks
        /\ IF live = {} THEN o.ret = NULL
           ELSE \A i \in live : o.ret = Some(urls[i].value)

\* C10 witness: one stored record is past its expiry and hidden, another is
\* exactly at its expiry and returned, and both are still stored after the
\* lookups
C10_Witness ==
  \E i, j \in 1..Len(urls) :
    /\ Expired(urls[i].value, now)
    /\ DateParse(urls[j].value.expiresAt) = now
    /\ getURLData(urls, clicks, now, urls[i].key).ret = NULL
    /\ getURLData(urls, clicks, now, urls[j].key).ret = Some(urls[j].value)
    /\ getURLData(urls, clicks, now, urls[i].key).urls = urls


(***************************************************************************)
(* Properties of the server.                                               *)
(***************************************************************************)
\* the record with this id is stored under this shortcode and now > expiresAt
ExpiredUnder(id, shortcode) ==
  \E i \in 1..Len(urls) :
    /\ urls[i].key = shortcode
    /\ urls[i].value.id = id
    /\ Expired(urls[i].value, now)

RecordStored(id) == \E i \in 1..Len(urls) : urls[i].value.id = id

\* the shortcodes the server can store a record under
ServerKeys ==
  { <<"a","b","c">> } \cup generateShortcode(DefaultLength)
    \cup generateShortcode(FallbackLength)

\* C11: every expired record is eventually removed: once now > expiresAt
\* for a stored record, then, the cleanup timer firing on, a state comes in
\* which the record is out of urls and its click list is out of clicks (or
\* the process has ended).
C11_ExpiredEventuallyRemoved ==
  \A id \in 1..MaxServed, shortcode \in ServerKeys :
    (server.running /\ ExpiredUnder(id, shortcode))
      ~> \/ ~server.running
         \/ /\ ~RecordStored(id)
            /\ MapHas(clicks, shortcode) => MapHas(urls, shortcode)

\* C11 witness: a record was created and clicked, it expired, and a tick of
\* the cleanup job has left both maps empty
C11_Witness ==
  /\ server.running /\ server.job = "done"
  /\ uuid = 2 /\ res.route = "GET /:shortcode" /\ res.status = HttpFound
  /\ urls = <<>> /\ clicks = <<>>

\* bodies that carry a custom shortcode which is valid once trimmed, with a
\* validity the handler accepts
CustomBodies ==
  { [url |-> u, validity |-> v, shortcode |-> c] :
      u \in { <<"https://example.com">> },
      v \in { NULL, Some(Integer(1)) },
      c \in { <<"a","b","c">>, <<" ","a","b","c">>, Repeat("a", FallbackLength) } }

\* the step answers a POST /shorturls that called createShortURL
PostStep == res' # res /\ res'.route = "POST /shorturls" /\ res'.call # NULL

\* C12: create is an atomic check-then-insert under every interleaving of
\* requests and cleanup ticks.  A POST with a valid custom shortcode that is
\* not stored succeeds and stores it, and a second POST with that shortcode
\* right after it fails with the already-exists error and changes nothing;
\* every POST with a stored shortcode fails with that error; and a stored
\* shortcode leaves urls only by a cleanup removing its expired record, so
\* the second of two such POSTs fails whatever steps lie between them.
C12_AtomicCreate ==
  /\ [] \A body \in CustomBodies, again \in CustomBodies :
          LET code == sanitizeInput(body.shortcode)
          IN  (~MapHas(urls, code) /\ sanitizeInput(again.shortcode) = code) =>
                \A o \in postShorturls(urls, clicks, now, uuid, body) :
                  /\ o.res.status = HttpCreated
                  /\ MapHas(o.urls, code)
                  /\ \A p \in postShorturls(o.urls, o.clicks, now, o.uuid, again) :
                       /\ p.res.status # HttpCreated
                       /\ ~p.res.call[1].ok /\ p.res.call[1].error = ErrExists
                       /\ p.urls = o.urls /\ p.clicks = o.clicks
  /\ [][ /\ (PostStep /\ res'.shortcode # NULL /\ isValidShortcode(res'.shortcode)) =>
             IF MapHas(urls, res'.shortcode)
             THEN /\ res'.status # HttpCreated
                  /\ ~res'.call[1].ok /\ res'.call[1].error = ErrExists
                  /\ urls' = urls /\ clicks' = clicks
             ELSE /\ res'.status = HttpCreated
                  /\ res'.call[1].ok
                  /\ MapHas(urls', res'.shortcode)
                  /\ Len(urls') = Len(urls) + 1
          /\ \A i \in 1..Len(urls) :
               ~MapHas(urls', urls[i].key) =>
                 /\ Expired(urls[i].value, now)
                 /\ urls' = cleanupExpiredURLs(urls, clicks, now).urls ]_vars

\* C12 witness: a POST with the custom shortcode of a record stored at an
\* earlier minute has just failed with the already-exists error
C12_Witness ==
  /\ res.route = "POST /shorturls" /\ res.shortcode = <<"a","b","c">>
  /\ res.call # NULL /\ ~res.call[1].ok /\ res.call[1].error = ErrExists
  /\ MapHas(urls, <<"a","b","c">>)
  /\ DateAfter(now, DateParse(MapGet(urls, <<"a","b","c">>)[1].createdAt))

\* C13: the HTTP layer validates the url before it calls createShortURL:
\* every record stored through POST /shorturls has an originalUrl that
\* passes isValidURL, and so has every record a createShortURL call of the
\* handler returned.
C13_UrlValidatedBeforeCreate ==
  /\ \A i \in 1..Len(urls) : isValidURL(urls[i].value.originalUrl)
  /\ (res.route = "POST /shorturls" /\ res.status = HttpCreated) =>
       isValidURL(res.call[1].ret[1].originalUrl)

\* validity values a request can carry beyond those of Bodies
AnyBodyValidity ==
  BodyValidities \cup { Some(Integer(0 - 1)), Some(Integer(DefaultValidity)),
                        Some(Integer(MaxValidity)) }

\* C14: every record stored through POST /shorturls has a validityMinutes
\* in 1..525600, which is 30 when the request gives no validity; a request
\* whose validity is given and is not an integer in 1..525600 is answered
\* with 400 and stores no record.
C14_ValidityChecked ==
  /\ \A i \in 1..Len(urls) : urls[i].value.validityMinutes \in 1..MaxValidity
  /\ \A v \in IF Serving THEN AnyBodyValidity ELSE {} :
       \A o \in postShorturls(urls, clicks, now, uuid, [PlainBody EXCEPT !.validity = v]) :
         IF v = NULL
         THEN o.res.status = HttpCreated /\ o.res.call[1].ret[1].validityMinutes = DefaultValidity
         ELSE IF v[1].kind = "integer" /\ v[1].n \in 1..MaxValidity
              THEN /\ o.res.status = HttpCreated
                   /\ o.res.call[1].ret[1].validityMinutes = v[1].n
              ELSE /\ o.res.status = HttpBadRequest
                   /\ o.urls = urls /\ o.clicks = clicks

\* C15: when createShortURL throws one of its two errors, the handler of
\* POST /shorturls answers with a 4xx status, never with 500, and urls and
\* clicks are as before the request.
C15_RegistryErrorsAreClientErrors ==
  \A body \in IF Serving THEN Bodies \cup CustomBodies ELSE {} :
    \A o \in postShorturls(urls, clicks, now, uuid, body) :
      (o.res.call # NULL /\ ~o.res.call[1].ok) =>
        /\ o.res.call[1].error \in { ErrInvalidFormat, ErrExists }
        /\ o.res.status \in 400..499
        /\ o.res.status # HttpServerError
        /\ o.urls = urls /\ o.clicks = clicks

\* C17: a failure inside a tick of the cleanup job is caught and logged by
\* the timer wrapper and does not end the process; after it the timer still
\* fires and requests are still served; and one timer only is started, so
\* two cleanups never run at once.
C17_CleanupFailureContained ==
  /\ server.timers <= 1
  /\ server.job # "uncaught"
  /\ server.running
  /\ server.job = "caught" => (ENABLED CleanupJob /\ ENABLED PostShorturls)

(***************************************************************************)
(* Properties of the registry operations and of the generator.             *)
(***************************************************************************)
\* shortcode arguments of any kind: stored, unknown, absent, ill-formed
AnyShortcode(U, C) ==
  Shortcodes(U, C) \cup { NULL, <<" ">>, <<"a","-","c">>, Repeat("a", MaxShortcodeLength + 1) }

C18_GeneratorTerminates ==
  /\ [](gen.attempts <= maxAttempts + 1)
  /\ [](gen.pc = "while" =>
          /\ Len(gen.shortcode) = DefaultLength
          /\ gen.attempts \in 1..maxAttempts)
  /\ [](gen.pc = "returned" =>
          /\ [shortcode |-> gen.shortcode, attempts |-> gen.attempts]
               \in generateUniqueShortcode(urls)
          /\ Len(gen.shortcode) \in {DefaultLength, FallbackLength}
          /\ Len(gen.shortcode) = DefaultLength =>
               gen.attempts <= maxAttempts /\ ~MapHas(urls, gen.shortcode)
          /\ Len(gen.shortcode) = FallbackLength <=> gen.attempts = maxAttempts + 1)
  /\ [][ /\ gen'.pc = "returned" /\ Len(gen'.shortcode) = FallbackLength =>
              gen.pc = "do" /\ gen.attempts = maxAttempts
         /\ gen'.pc = "returned" /\ Len(gen'.shortcode) = DefaultLength =>
              gen.pc = "while" /\ gen'.shortcode = gen.shortcode
         /\ gen.pc = "returned" => gen' = gen
         /\ urls' = urls ]_vars
  /\ <>(gen.pc = "returned")

\* the fallback has returned a length-8 code that is a key of urls: it was
\* never looked up
C18_Witness ==
  /\ gen.pc = "returned"
  /\ gen.attempts = maxAttempts + 1
  /\ Len(gen.shortcode) = FallbackLength
  /\ MapHas(urls, gen.shortcode)

\* C19: getStatistics(s) returns null exactly when urls has no record under
\* s, whether or not the record has expired; otherwise its totalClicks is
\* the length of the click list of s and the totalClicks of the one entry
\* of getAllURLs for s.  getAllURLs has one entry per record of urls,
\* expired ones included, and neither output carries a click's ip: a click
\* is shown as timestamp, referrer, location and userAgent, in stored order.
C19_StatisticsAgree ==
  LET all == getAllURLs(urls, clicks).ret
  IN  /\ Len(all) = Len(urls)
      /\ \A i \in 1..Len(urls) :
           /\ all[i].id = urls[i].value.id
           /\ all[i].shortcode = urls[i].key
           /\ "ip" \notin DOMAIN all[i]
           /\ \A j \in 1..Len(all) : all[j].shortcode = all[i].shortcode => j = i
      /\ \A s \in AnyShortcode(urls, clicks) :
           LET stats  == getStatistics(urls, clicks, s).ret
               stored == \E i \in 1..Len(urls) : urls[i].key = s
           IN  /\ stats = NULL <=> ~stored
               /\ stored =>
                    \E i \in 1..Len(all), j \in 1..Len(clicks) :
                      /\ all[i].shortcode = s
                      /\ clicks[j].key = s
                      /\ stats[1].totalClicks = Len(clicks[j].value)
                      /\ stats[1].totalClicks = all[i].totalClicks
                      /\ Len(stats[1].clicks) = Len(clicks[j].value)
                      /\ "ip" \notin DOMAIN stats[1]
                      /\ \A k \in 1..Len(stats[1].clicks) :
                           /\ DOMAIN stats[1].clicks[k] =
                                {"timestamp", "referrer", "location", "userAgent"}
                           /\ stats[1].clicks[k].timestamp = clicks[j].value[k].timestamp
                           /\ stats[1].clicks[k].userAgent = clicks[j].value[k].userAgent

\* an expired record with a recorded click, its ip stored, is still reported
C19_Witness ==
  \E i \in 1..Len(urls), j \in 1..Len(clicks) :
    /\ Expired(urls[i].value, now)
    /\ clicks[j].key = urls[i].key
    /\ Len(clicks[j].value) > 0
    /\ clicks[j].value[1].ip # ""
    /\ getStatistics(urls, clicks, urls[i].key).ret # NULL
    /\ Len(getAllURLs(urls, clicks).ret) = Len(urls)

\* C25: the shortcode of an expired record that is still in urls cannot be
\* reused: createShortURL with it as custom shortcode throws the
\* already-exists error and changes nothing, whatever the url and validity;
\* after the cleanup pass that removes the record the same call stores a
\* new record under that shortcode.
C25_ExpiredShortcodeHeld ==
  \A i \in 1..Len(urls) :
    Expired(urls[i].value, now) =>
      \A originalUrl \in AnyUrl, validityArg \in ValidityArgs :
        LET shortcode == urls[i].key
            cleaned   == cleanupExpiredURLs(urls, clicks, now)
            again     == createShortURL(cleaned.urls, cleaned.clicks, now, uuid,
                                        originalUrl, validityArg, shortcode)
        IN  /\ createShortURL(urls, clicks, now, uuid, originalUrl, validityArg, shortcode)
                 = { Throw(urls, clicks, uuid, ErrExists) }
            /\ ~MapHas(cleaned.urls, shortcode)
            /\ again # {}
            /\ \A o \in again :
                 /\ o.ok
                 /\ MapGet(o.urls, shortcode) = o.ret
                 /\ o.ret[1].id = uuid + 1
                 /\ o.ret[1].id # urls[i].value.id

\* an expired record holding a clicked custom shortcode is still in urls
C25_Witness ==
  \E i \in 1..Len(urls) :
    /\ Expired(urls[i].value, now)
    /\ urls[i].key = <<"a","b","c">>
    /\ last.op = "recordClick"

\* C26: in every state reached by createShortURL, recordClick, getURLData,
\* getStatistics, getAllURLs and cleanupExpiredURLs, every key of urls is a
\* key of clicks: a record never lacks its click list.
C26_RecordHasClickList ==
  /\ MapKeys(urls) \subseteq MapKeys(clicks)
  /\ \A i \in 1..Len(urls) :
       /\ MapGet(clicks, urls[i].key) # NULL
       /\ Cardinality({ j \in 1..Len(clicks) : clicks[j].key = urls[i].key }) = 1

\* a cleanup pass has removed one record and its list and left another
\* record with a click in its list
C26_Witness ==
  /\ last.op = "cleanupExpiredURLs"
  /\ last.ret = Some(1)
  /\ \E i \in 1..Len(urls), j \in 1..Len(clicks) :
       clicks[j].key = urls[i].key /\ Len(clicks[j].value) > 0

\* the step is a GET /:shortcode request answered with a redirect
RedirectStep ==
  /\ res' # res
  /\ res'.route = "GET /:shortcode"
  /\ res'.status = HttpFound

\* the record of urls' under the key was in urls already, with the same id
SameRecord(key) ==
  /\ MapHas(urls, key)
  /\ MapGet(urls, key)[1].id = MapGet(urls', key)[1].id

C28_CleanupAgreesWithLookup ==
  LET cleaned == cleanupExpiredURLs(urls, clicks, now)
  IN  \A i \in 1..Len(urls) :
        LET shortcode == urls[i].key
            found     == getURLData(urls, clicks, now, shortcode).ret
        IN  /\ found # NULL <=> MapHas(cleaned.urls, shortcode)
            /\ found # NULL =>
                 /\ MapGet(cleaned.urls, shortcode) = found
                 /\ MapGet(cleaned.clicks, shortcode) = MapGet(clicks, shortcode)
            /\ ~DateAfter(now, DateParse(urls[i].value.expiresAt)) =>
                 /\ MapGet(cleaned.urls, shortcode) = Some(urls[i].value)
                 /\ MapGet(cleaned.clicks, shortcode) = MapGet(clicks, shortcode)

\* a cleanup has run at the very instant a record expires and has kept it,
\* with its click
C28_Witness ==
  /\ last.op = "cleanupExpiredURLs"
  /\ \E i \in 1..Len(urls) :
       /\ DateParse(urls[i].value.expiresAt) = now
       /\ getURLData(urls, clicks, now, urls[i].key).ret # NULL
       /\ MapGet(clicks, urls[i].key) # Some(<<>>)

(***************************************************************************)
(* Properties of the logging package.                                      *)
(***************************************************************************)
\* the delays slept before attempt k: retryDelay * 1, ..., retryDelay * (k - 1)
DelaysBefore(k) == [ i \in 1..(k - 1) |-> retryDelay * i ]

\* C20: sendLogToServer posts at most maxRetries times per log entry (3 by
\* default), stops at the first post that succeeds, sleeps between failed
\* attempts, after the last failed attempt falls back to the console, and
\* never rejects to its caller.
C20_SendNeverRejects ==
  /\ send.posts <= send.maxRetries
  /\ send.pc = "post" =>
       send.posts = send.attempt - 1 /\ send.slept = DelaysBefore(send.attempt)
  /\ send.delivered =>
       send.pc = "resolved" /\ send.posts = send.attempt
  /\ send.pc = "resolved" /\ send.axios /\ ~send.delivered =>
       /\ send.posts = send.maxRetries
       /\ send.enableConsoleLog =>
            \E i \in 1..Len(send.console) : send.console[i] = ErrorFallback
  /\ send.pc # "rejected"

\* C21: the waits between delivery attempts double: the first is
\* retryDelay and each further one is twice the one before it.
C21_ExponentialBackoff ==
  /\ Len(send.slept) > 0 => send.slept[1] = retryDelay
  /\ \A i \in 2..Len(send.slept) : send.slept[i] = 2 * send.slept[i - 1]

\* C22: a Log call with a stack other than backend/frontend, a level other
\* than debug/info/warn/error/fatal, or a package name or message that is
\* empty or not a string is rejected: no log line of the call is written to
\* the console, no delivery to the server is begun, and the caller observes
\* the validation error.
C22_InvalidLogRejected ==
  logged.pc = "returned" =>
    LET stack == logged.args[1]
        level == logged.args[2]
        packageName == logged.args[3]
        message == logged.args[4]
        invalid ==
          \/ stack \notin { Str("backend"), Str("frontend") }
          \/ level \notin { Str("debug"), Str("info"), Str("warn"), Str("error"), Str("fatal") }
          \/ packageName.type # "string" \/ packageName.text = ""
          \/ message.type # "string" \/ message.text = ""
    IN  invalid =>
          /\ \A i \in 1..Len(logged.console) : logged.console[i].tag # "log"
          /\ logged.sends = 0
          /\ logged.outcome = "rejected"
          /\ logged.error # ""

\* the requests that differ from req at most in the values of sensitive fields
SameButSecrets(req) ==
  { other \in Requests :
      /\ other.path = req.path
      /\ DOMAIN other.headers = DOMAIN req.headers
      /\ DOMAIN other.body = DOMAIN req.body
      /\ \A f \in DOMAIN req.headers \ sensitiveFields : other.headers[f] = req.headers[f]
      /\ \A f \in DOMAIN req.body \ sensitiveFields : other.body[f] = req.body[f] }

\* C23: no entry logged by requestLogger or errorLogger holds the value a
\* request gave to a header or body field named password, token,
\* authorization or cookie, and a request differing only in such values is
\* logged with the same entries.
C23_SensitiveFieldsRedacted ==
  logged.pc = "logged" =>
    LET req == logged.args[1]
    IN  /\ \A i \in 1..Len(logged.entries) :
             LET entry == logged.entries[i]
             IN  /\ \A f \in DOMAIN entry.headers \cap sensitiveFields :
                      entry.headers[f] = Redacted
                 /\ \A f \in DOMAIN entry.body.data \cap sensitiveFields :
                      entry.body.data[f] = Redacted
        /\ \A other \in SameButSecrets(req) :
             IF logged.entries # <<>> /\ logged.entries[1].by = "errorLogger"
             THEN errorLogger(other) = logged.entries
             ELSE \A logRequestBody \in BOOLEAN :
                    requestLogger(logRequestBody, other) = requestLogger(logRequestBody, req)

(***************************************************************************)
(* Properties of the frontend.                                             *)
(***************************************************************************)
\* C24: the form always holds between 1 and 5 entries: adding is a no-op
\* at 5 and adds one below, removing is a no-op at 1 and removes one above,
\* editing keeps the number, a successful submit resets the form to one
\* entry, and a submit sends at most 5 create requests.
C24_FormBounded ==
  /\ [](/\ Len(form.urlForms) \in 1..5
        /\ Len(form.sent) <= 5
        /\ Len(form.sent) <= Len(form.urlForms)
        /\ Len(handleAddForm(form.urlForms)) =
             IF Len(form.urlForms) = 5 THEN 5 ELSE Len(form.urlForms) + 1
        /\ \A index \in 1..Len(form.urlForms) :
             Len(handleRemoveForm(form.urlForms, index)) =
               IF Len(form.urlForms) = 1 THEN 1 ELSE Len(form.urlForms) - 1)
  /\ [][ /\ form.loading /\ ~form'.loading /\ form'.error = "" =>
              form'.urlForms = <<EmptyEntry>>
         /\ form.loading = form'.loading /\ form'.urlForms # form.urlForms =>
              Len(form'.urlForms) - Len(form.urlForms) \in {-1, 0, 1} ]_vars

\* five entries filled in and submitted: five requests in flight
C24_Witness ==
  /\ Len(form.urlForms) = 5
  /\ form.loading
  /\ Len(form.sent) = 5

\* C29: a custom shortcode the frontend validators accept and the form
\* sends satisfies the backend's isValidShortcode: every create request in
\* flight that carries a shortcode carries a well-formed one, and so does
\* the data validateUrlFormData normalizes from an entry it accepts.
C29_FrontendBackendAgree ==
  /\ \A i \in 1..Len(form.urlForms) :
       LET checked == validateUrlFormData(form.urlForms[i])
       IN  checked.isValid /\ checked.normalizedData.shortcode # <<>> =>
             isValidShortcode(checked.normalizedData.shortcode)
  /\ \A i \in 1..Len(form.sent) :
       form.sent[i].shortcode # NULL => isValidShortcode(form.sent[i].shortcode)

\* the buffer holds at most maxLogs entries, the newest first, and they are
\* the most recent ones: the oldest are the ones dropped
BufferNewestFirst ==
  /\ Len(logs.logs) <= 1000
  /\ Len(logs.logs) >= 1
  /\ logs.logs[1] = logs.calls
  /\ \A i \in 1..(Len(logs.logs) - 1) : logs.logs[i + 1] = logs.logs[i] - 1

\* C30 as stated: logs holds at most 1000 entries with the most recent
\* first, the oldest being dropped, and the copy in localStorage holds the
\* 100 most recent entries, or all of them when there are fewer.
C30_BufferAndCopy ==
  /\ BufferNewestFirst
  /\ Len(logs.stored) <= 100
  /\ logs.stored = slice(logs.logs, 100)

\* C30 amended: the buffer is as stated; the copy in localStorage holds at
\* most 100 entries, newest first, and is the 100 most recent entries after
\* every call whose write to localStorage went through (a write that throws
\* leaves the copy of an earlier call).
C30_BufferAndCopyWritten ==
  /\ BufferNewestFirst
  /\ Len(logs.stored) <= 100
  /\ \A i \in 1..(Len(logs.stored) - 1) : logs.stored[i + 1] < logs.stored[i]
  /\ \A i \in 1..Len(logs.stored) : logs.stored[i] <= logs.calls
  /\ logs.written => logs.stored = slice(logs.logs, 100)

\* a full buffer that has dropped its oldest entries, with a copy of 100
C30_Witness ==
  /\ logs.calls > maxLogs
  /\ Len(logs.logs) = maxLogs
  /\ logs.logs[maxLogs] > 1
  /\ Len(logs.stored) = recentLogs
  /\ logs.written

====
